---- MODULE Spec2Model ----
(***************************************************************************)
(* Model of the voice-command interpreter of TalesCam-AI: the matcher      *)
(* findBestMatch with its phonetic table and edit distance, and the        *)
(* recognition result handler of useVoiceCommands that calls it.           *)
(*                                                                         *)
(* Strings are sequences of one-character strings, so that length, slice,  *)
(* trim, split and comparison are computed as the JavaScript code computes *)
(* them.  Scores are IEEE-754 doubles in the code; a score is modelled as  *)
(* the exact rational n/d together with the rounding offset e (in units in *)
(* the last place) of the double the code's expression produces, so that   *)
(* two scores compare exactly as the doubles compare.                      *)
(***************************************************************************)
EXTENDS Integers, Sequences, FiniteSets, TLC

VARIABLES
    commands,       \* commandsRef.current: the active command list
    input,          \* the text of the recognition result handled last
    isFinal,        \* whether that result was final
    match,          \* what findBestMatch returned for it (NoMatch for null)
    invoked,        \* the callbacks run while handling it, in order
    transcript,     \* the transcript state shown to the user
    feedbackTimer,  \* commandFeedbackTimer: TRUE while the 2 s timer is pending
    isProcessing,   \* App's isProcessing (onProcessingStart / onProcessingEnd)
    listening,      \* listeningRef.current
    session,        \* the recognizer: "active" from start() to its end event
    restartTimer,   \* restartTimerRef: the pending delay in ms, or NoTimer
    isNetworkError, \* isNetworkErrorRef.current
    isAbortedError, \* isAbortedErrorRef.current
    sessionErrors,  \* history: the network and aborted errors that the
                    \* running session has reported; empty between sessions
    generations,    \* the calls of handleGenerateStory that reached the await,
                    \* in the order of their start: "running", "resolved"
                    \* or "rejected"
    call,           \* a call of a function of the story service: its
                    \* attempt, the requests it has issued, its result
    speech,         \* a narration started by speakStory: the utterance
                    \* handed to the synthesizer and the callbacks made
    pc,             \* "hook" in Spec; the matcher harness's position elsewhere
    app             \* the App component's state, changed by the callbacks

vars == <<commands, input, isFinal, match, invoked, transcript, feedbackTimer,
          isProcessing, listening, session, restartTimer, isNetworkError,
          isAbortedError, sessionErrors, generations,
          call, speech, pc, app>>

\* the asynchronous work outside the hook
asyncWork == <<generations, call, speech>>

----------------------------------------------------------------------------
(* JavaScript string primitives *)

UpperChars == <<"A","B","C","D","E","F","G","H","I","J","K","L","M",
                "N","O","P","Q","R","S","T","U","V","W","X","Y","Z">>
LowerChars == <<"a","b","c","d","e","f","g","h","i","j","k","l","m",
                "n","o","p","q","r","s","t","u","v","w","x","y","z">>

LowerChar(c) ==
    IF \E i \in 1..26 : UpperChars[i] = c
    THEN LowerChars[CHOOSE i \in 1..26 : UpperChars[i] = c]
    ELSE c

\* String.prototype.toLowerCase
toLowerCase(s) == [i \in 1..Len(s) |-> LowerChar(s[i])]

IsSpace(c) == c = " "

\* String.prototype.trim
RECURSIVE trimStart(_)
trimStart(s) ==
    IF Len(s) > 0 /\ IsSpace(s[1]) THEN trimStart(Tail(s)) ELSE s

RECURSIVE trimEnd(_)
trimEnd(s) ==
    IF Len(s) > 0 /\ IsSpace(s[Len(s)])
    THEN trimEnd(SubSeq(s, 1, Len(s) - 1)) ELSE s

trim(s) == trimEnd(trimStart(s))

\* String.prototype.split(' '): every single space separates two fields
RECURSIVE splitFrom(_, _, _)
splitFrom(s, i, cur) ==
    IF i > Len(s) THEN <<cur>>
    ELSE IF s[i] = " " THEN <<cur>> \o splitFrom(s, i + 1, <<>>)
    ELSE splitFrom(s, i + 1, Append(cur, s[i]))

split(s) == splitFrom(s, 1, <<>>)

\* String.prototype.startsWith / endsWith
startsWith(s, p) == Len(p) <= Len(s) /\ SubSeq(s, 1, Len(p)) = p
endsWith(s, p) ==
    Len(p) <= Len(s) /\ SubSeq(s, Len(s) - Len(p) + 1, Len(s)) = p

Clamp(i, n) == IF i < 0 THEN 0 ELSE IF i > n THEN n ELSE i

\* String.prototype.substring(from, to) with 0-based, clamped indices
substring(s, from, to) ==
    LET a == Clamp(from, Len(s))
        b == Clamp(to, Len(s))
        lo == IF a < b THEN a ELSE b
        hi == IF a < b THEN b ELSE a
    IN  SubSeq(s, lo + 1, hi)

\* String.prototype.substring(from)
substringFrom(s, from) == substring(s, from, Len(s))

\* String.prototype.lastIndexOf: the last 0-based position of w in s or -1
lastIndexOf(s, w) ==
    LET occ == {i \in 0..(Len(s) - Len(w)) : SubSeq(s, i + 1, i + Len(w)) = w}
    IN  IF occ = {} THEN -1 ELSE CHOOSE i \in occ : \A k \in occ : k <= i

\* Array.prototype.includes / some(word => word === w)
includes(list, w) == \E i \in 1..Len(list) : list[i] = w

Abs(x) == IF x < 0 THEN -x ELSE x
Max(x, y) == IF x > y THEN x ELSE y
Min(x, y) == IF x < y THEN x ELSE y

----------------------------------------------------------------------------
(* Edit distance *)

\* A row filled without the cell to the left: no insertion step.
RECURSIVE levFillRowNoLeft(_, _, _, _, _)
levFillRowNoLeft(a, b, i, prev, cur) ==
    LET j == Len(cur)
    IN  IF j > Len(a) THEN cur
        ELSE levFillRowNoLeft(a, b, i, prev,
               Append(cur,
                 IF b[i] = a[j]
                 THEN prev[j]
                 ELSE Min(prev[j] + 1, prev[j + 1] + 1)))

\* One row of the matrix, left to right.  prev is row i-1 and cur the cells
\* of row i filled so far; position p of a row holds column p-1.
RECURSIVE levFillRow(_, _, _, _, _)
levFillRow(a, b, i, prev, cur) ==
    LET j == Len(cur)
    IN  IF j > Len(a) THEN cur
        ELSE levFillRow(a, b, i, prev,
               Append(cur,
                 IF b[i] = a[j]
                 THEN prev[j]
                 ELSE Min(prev[j] + 1, Min(cur[j] + 1, prev[j + 1] + 1))))

\* The rows 1..b.length in turn, each from the row before.  (The test on
\* Len(prev), never true, makes TLC evaluate a row before the next one.)
RECURSIVE levRows(_, _, _, _)
levRows(a, b, i, prev) ==
    IF i > Len(b) \/ Len(prev) = 0 THEN prev
    ELSE levRows(a, b, i + 1, levFillRow(a, b, i, prev, <<i>>))

levenshtein(a, b) ==
    IF Len(a) = 0 THEN Len(b)
    ELSE IF Len(b) = 0 THEN Len(a)
    ELSE levRows(a, b, 1, [p \in 1..(Len(a) + 1) |-> p - 1])[Len(a) + 1]

----------------------------------------------------------------------------
(* The phonetic table, in the key order of the object literal *)

phoneticSimilarWordsMap ==
  <<
  [key |-> <<"p","h","o","t","o">>, \* photo (line 50)
   words |-> <<
       <<"p","h","o","t","o">>,
       <<"f","o","t","o">>,
       <<"s","h","o","t">>,
       <<"p","o","t">>,
       <<"p","l","o","t">>,
       <<"p","r","o">>,
       <<"s","h","o","w">>,
       <<"g","o","e","s">>,
       <<"t","h","o","s","e">>,
       <<"c","l","o","s","e">>,
       <<"f","l","o","w","s">>>>],
  [key |-> <<"t","a","k","e"," ","a"," ","p","h","o","t","o">>, \* take a photo (line 51)
   words |-> <<
       <<"t","a","k","e"," ","a"," ","p","h","o","t","o">>,
       <<"f","a","k","e"," ","a"," ","p","h","o","t","o">>,
       <<"m","a","k","e"," ","a"," ","p","h","o","t","o">>,
       <<"c","a","k","e"," ","a"," ","p","h","o","t","o">>,
       <<"b","a","k","e"," ","a"," ","p","h","o","t","o">>>>],
  [key |-> <<"c","a","p","t","u","r","e">>, \* capture (line 52)
   words |-> <<
       <<"c","a","p","t","u","r","e">>,
       <<"c","a","p","t","o","r">>,
       <<"r","a","p","t","u","r","e">>,
       <<"c","h","a","p","t","e","r">>,
       <<"c","a","p"," ","t","o","u","r">>,
       <<"t","r","a","p"," ","d","o","o","r">>,
       <<"t","r","a","p"," ","t","o","u","r">>>>],
  [key |-> <<"s","n","a","p">>, \* snap (line 53)
   words |-> <<
       <<"s","n","a","p">>,
       <<"s","n","a","p","p","e","d">>,
       <<"s","n","a","p","c","h","a","t">>,
       <<"c","l","a","p">>,
       <<"s","l","a","p">>,
       <<"t","r","a","p">>,
       <<"m","a","p">>,
       <<"c","a","p">>,
       <<"l","a","p">>,
       <<"g","a","p">>>>],
  [key |-> <<"h","o","m","e">>, \* home (line 56)
   words |-> <<
       <<"h","o","m","e">>,
       <<"h","o","l","e">>,
       <<"h","o","s","e">>,
       <<"h","o","l","d">>,
       <<"h","o","p","e">>,
       <<"c","o","p","e">>,
       <<"c","o","p","e">>,
       <<"k","n","o","w">>,
       <<"f","l","o","w">>,
       <<"s","l","o","w">>>>],
  [key |-> <<"m","a","i","n"," ","s","c","r","e","e","n">>, \* main screen (line 57)
   words |-> <<
       <<"m","a","i","n"," ","s","c","r","e","e","n">>,
       <<"m","a","n"," ","s","c","r","e","e","n">>,
       <<"m","e","n"," ","s","c","r","e","e","n">>,
       <<"m","i","n","e"," ","s","c","r","e","e","n">>,
       <<"m","e","a","n"," ","s","c","r","e","e","n">>>>],
  [key |-> <<"s","t","a","r","t"," ","o","v","e","r">>, \* start over (line 58)
   words |-> <<
       <<"s","t","a","r","t"," ","o","v","e","r">>,
       <<"s","t","a","r","p"," ","o","v","e","r">>,
       <<"s","t","a","r","t"," ","h","o","v","e","r">>,
       <<"h","e","a","r","t"," ","c","o","v","e","r">>,
       <<"c","a","r","t"," ","r","o","v","e","r">>>>],
  [key |-> <<"b","a","c","k">>, \* back (line 59)
   words |-> <<
       <<"b","a","c","k">>,
       <<"p","a","c","k">>,
       <<"t","r","a","c","k">>,
       <<"h","a","c","k">>,
       <<"c","r","a","c","k">>,
       <<"s","t","a","c","k">>,
       <<"l","a","c","k">>,
       <<"s","a","c","k">>,
       <<"t","a","c","k">>>>],
  [key |-> <<"n","e","x","t">>, \* next (line 60)
   words |-> <<
       <<"n","e","x","t">>,
       <<"t","e","x","t">>,
       <<"f","l","e","x">>,
       <<"t","e","s","t","s">>,
       <<"b","e","s","t">>,
       <<"r","e","s","t">>,
       <<"g","e","t","s">>,
       <<"w","r","e","c","k","s">>,
       <<"d","e","c","k","s">>>>],
  [key |-> <<"s","k","i","p">>, \* skip (line 61)
   words |-> <<
       <<"s","k","i","p">>,
       <<"s","h","i","p">>,
       <<"s","l","i","p">>,
       <<"g","r","i","p">>,
       <<"t","r","i","p">>,
       <<"f","l","i","p">>,
       <<"n","i","p">>,
       <<"l","i","p">>,
       <<"z","i","p">>,
       <<"r","i","p">>>>],
  [key |-> <<"a","u","t","o">>, \* auto (line 64)
   words |-> <<
       <<"a","u","t","o">>,
       <<"o","t","t","o">>,
       <<"o","u","t"," ","t","o">>,
       <<"o","u","t"," ","t","w","o">>,
       <<"o","u","g","h","t"," ","t","o">>,
       <<"o","c","h","o">>>>],
  [key |-> <<"r","e","s","e","t">>, \* reset (line 65)
   words |-> <<
       <<"r","e","s","e","t">>,
       <<"r","e","-","s","e","t">>,
       <<"r","e"," ","s","e","t">>,
       <<"p","r","e","s","e","t">>,
       <<"r","e","g","r","e","t">>,
       <<"r","e"," ","b","e","t">>,
       <<"r","e"," ","g","e","t">>>>],
  [key |-> <<"r","a","i","s","e","d">>, \* raised (line 66)
   words |-> <<
       <<"r","a","i","s","e","d">>,
       <<"r","a","s","e","d">>,
       <<"r","a","y","s">>,
       <<"r","a","i","s","e">>,
       <<"r","a","z","e">>,
       <<"r","a","s","e">>,
       <<"r","e","a","s","e">>,
       <<"r","a","c","e">>,
       <<"r","e"," ","s","e","t">>>>],
  [key |-> <<"r","e","t","r","y">>, \* retry (line 67)
   words |-> <<
       <<"r","e","t","r","y">>,
       <<"r","e"," ","t","r","y">>,
       <<"r","e"," ","t","r","y">>,
       <<"r","e"," ","t","i","e">>,
       <<"r","e"," ","c","r","y">>>>],
  [key |-> <<"t","r","y"," ","a","g","a","i","n">>, \* try again (line 68)
   words |-> <<
       <<"t","r","y"," ","a","g","a","i","n">>,
       <<"c","r","y"," ","a","g","a","i","n">>,
       <<"t","i","e"," ","a","g","a","i","n">>,
       <<"f","l","y"," ","a","g","a","i","n">>,
       <<"d","i","e"," ","a","g","a","i","n">>,
       <<"l","i","e"," ","a","g","a","i","n">>>>],
  [key |-> <<"c","h","e","c","k">>, \* check (line 71)
   words |-> <<
       <<"c","h","e","c","k">>,
       <<"t","e","c","h">>,
       <<"d","e","c","k">>,
       <<"n","e","c","k">>,
       <<"b","e","c","k">>,
       <<"p","e","c","k">>,
       <<"r","e","c","k">>,
       <<"w","r","e","c","k">>,
       <<"s","e","c">>,
       <<"s","h","e","k">>>>],
  [key |-> <<"e","n","a","b","l","e">>, \* enable (line 72)
   words |-> <<
       <<"e","n","a","b","l","e">>,
       <<"i","n"," ","a","b","l","e">>,
       <<"i","n"," ","c","a","b","l","e">>,
       <<"u","n","s","t","a","b","l","e">>,
       <<"i","n"," ","t","a","b","l","e">>,
       <<"i","n"," ","l","a","b","e","l">>>>],
  [key |-> <<"u","n","c","h","e","c","k">>, \* uncheck (line 73)
   words |-> <<
       <<"u","n","c","h","e","c","k">>,
       <<"u","n"," ","t","e","c","h">>,
       <<"o","n"," ","c","h","e","c","k">>,
       <<"u","n"," ","d","e","c","k">>,
       <<"a","n"," ","c","h","e","c","k">>,
       <<"o","n"," ","t","e","c","h">>>>],
  [key |-> <<"d","i","s","a","b","l","e">>, \* disable (line 74)
   words |-> <<
       <<"d","i","s","a","b","l","e">>,
       <<"d","i","s"," ","a","b","l","e">>,
       <<"d","i","s"," ","c","a","b","l","e">>,
       <<"t","h","i","s"," ","a","b","l","e">>,
       <<"d","i","s"," ","t","a","b","l","e">>>>],
  [key |-> <<"g","e","n","e","r","a","t","e">>, \* generate (line 77)
   words |-> <<
       <<"g","e","n","e","r","a","t","e">>,
       <<"g","e","n","e","r","a","l"," ","l","a","t","e">>,
       <<"g","e","n","e","r","a","l"," ","g","a","t","e">>,
       <<"g","e","n"," ","a"," ","r","a","t","e">>,
       <<"g","e","n","e","r","a","l"," ","e","i","g","h","t">>>>],
  [key |-> <<"c","o","n","f","i","r","m">>, \* confirm (line 78)
   words |-> <<
       <<"c","o","n","f","i","r","m">>,
       <<"c","o","n"," ","f","i","r","m">>,
       <<"c","o","n"," ","f","o","r","m">>,
       <<"c","o","n"," ","f","a","r","m">>,
       <<"c","a","n"," ","f","o","r","m">>,
       <<"c","o","n"," ","f","e","r","n">>>>],
  [key |-> <<"s","a","v","e"," ","s","t","o","r","y">>, \* save story (line 79)
   words |-> <<
       <<"s","a","v","e"," ","s","t","o","r","y">>,
       <<"s","a","f","e"," ","s","t","o","r","y">>,
       <<"s","a","v","e"," ","g","l","o","r","y">>,
       <<"s","a","f","e"," ","g","l","o","r","y">>,
       <<"h","a","v","e"," ","s","t","o","r","y">>>>],
  [key |-> <<"d","o","w","n","l","o","a","d">>, \* download (line 80)
   words |-> <<
       <<"d","o","w","n","l","o","a","d">>,
       <<"d","o","w","n"," ","l","o","a","d">>,
       <<"d","a","w","n"," ","l","o","a","d">>,
       <<"d","o","n"," ","l","o","a","d">>,
       <<"o","n"," ","l","o","a","d">>>>],
  [key |-> <<"u","p","l","o","a","d">>, \* upload (line 84)
   words |-> <<
       <<"u","p","l","o","a","d">>,
       <<"u","p"," ","l","o","a","d">>,
       <<"u","p"," ","r","o","a","d">>,
       <<"a"," ","p","r","o","d">>,
       <<"u","p"," ","b","r","o","a","d">>>>],
  [key |-> <<"u","p","l","o","a","d"," ","i","m","a","g","e">>, \* upload image (line 85)
   words |-> <<
       <<"u","p","l","o","a","d"," ","i","m","a","g","e">>,
       <<"u","p"," ","l","o","a","d"," ","i","m","a","g","e">>,
       <<"u","p","l","o","a","d"," ","i","m"," ","a","g","e">>,
       <<"u","p","l","o","a","d"," ","i","m","i","g","e">>>>],
  [key |-> <<"b","e","g","i","n","n","i","n","g">>, \* beginning (line 88)
   words |-> <<
       <<"b","e","g","i","n","n","i","n","g">>,
       <<"b","e","g","i","n"," ","i","n">>,
       <<"b","e","g","i","n"," ","t","h","e","n">>,
       <<"b","e","g","i","n","n","i","n","g">>,
       <<"b","e","g","i","n","i","n","g">>>>],
  [key |-> <<"s","t","a","r","t">>, \* start (line 89)
   words |-> <<
       <<"s","t","a","r","t">>,
       <<"s","t","a","r","p">>,
       <<"h","e","a","r","t">>,
       <<"c","a","r","t">>,
       <<"p","a","r","t">>,
       <<"m","a","r","t">>>>],
  [key |-> <<"m","i","d","d","l","e">>, \* middle (line 90)
   words |-> <<
       <<"m","i","d","d","l","e">>,
       <<"m","u","d","d","l","e">>,
       <<"m","e","d","d","l","e">>,
       <<"r","i","d","d","l","e">>,
       <<"f","i","d","d","l","e">>,
       <<"p","i","d","d","l","e">>>>],
  [key |-> <<"e","n","d">>, \* end (line 91)
   words |-> <<
       <<"e","n","d">>,
       <<"a","n","d">>,
       <<"a","n","d">>,
       <<"l","a","n","d">>,
       <<"h","a","n","d">>,
       <<"b","a","n","d">>,
       <<"s","t","a","n","d">>,
       <<"s","a","n","d">>>>],
  [key |-> <<"a","n","d">>, \* and (line 92)
   words |-> <<
       <<"a","n","d">>,
       <<"e","n","d">>,
       <<"l","a","n","d">>,
       <<"h","a","n","d">>,
       <<"b","a","n","d">>,
       <<"s","t","a","n","d">>,
       <<"s","a","n","d">>>>]
  >>

\* Object.keys(phoneticSimilarWordsMap).find(key => map[key].some(w => w === word)):
\* the index of the first key whose list holds word, or 0 for undefined
findMainCommand(word) ==
    LET hits == {k \in 1..Len(phoneticSimilarWordsMap) :
                    includes(phoneticSimilarWordsMap[k].words, word)}
    IN  IF hits = {} THEN 0 ELSE CHOOSE k \in hits : \A h \in hits : k <= h

\* phoneticSimilarWordsMap[word]: the index of the key equal to word, or 0
lookupKey(word) ==
    LET hits == {k \in 1..Len(phoneticSimilarWordsMap) :
                    phoneticSimilarWordsMap[k].key = word}
    IN  IF hits = {} THEN 0 ELSE CHOOSE k \in hits : TRUE

soundsSimilar(word1, word2) ==
    LET k1 == lookupKey(word1)
        mainCommand1 == findMainCommand(word1)
        mainCommand2 == findMainCommand(word2)
    IN  \/ word1 = word2
        \/ k1 # 0 /\ includes(phoneticSimilarWordsMap[k1].words, word2)
        \/ mainCommand1 # 0
           /\ includes(phoneticSimilarWordsMap[mainCommand1].words, word2)
        \/ mainCommand2 # 0
           /\ includes(phoneticSimilarWordsMap[mainCommand2].words, word1)

----------------------------------------------------------------------------
(* Scores.  [n, d, e] is the double that the code's expression yields for  *)
(* the exact value n/d; e is its offset, in units in the last place, from  *)
(* the double nearest to n/d.  Distinct exact values of the model are much *)
(* further apart than one unit, so the order of two scores is the order of *)
(* their exact values and, when these are equal, of their offsets.         *)

Hundredths(h, e) == [n |-> h, d |-> 100, e |-> e]

ScoreGT(a, b) ==
    \/ a.n * b.d > b.n * a.d
    \/ a.n * b.d = b.n * a.d /\ a.e > b.e

ScoreGE(a, b) == ~ScoreGT(b, a)

ScoreEQ(a, b) == a.n * b.d = b.n * a.d /\ a.e = b.e

\* 0.9 + length / 100 in double arithmetic: one unit above the nearest
\* double for these lengths, exact for the others up to 60
prefixRound(len) ==
    IF len \in {4, 5, 23, 24, 26, 28, 49, 51, 53, 55} THEN 1 ELSE 0

\* 0.8 - (lengthDiff * 0.05) in double arithmetic, lengthDiff up to 30
phoneticRound(diff) ==
    IF diff \in {2, 4, 9, 10, 13, 25} THEN 1
    ELSE IF diff \in {12, 14, 23, 24} THEN -2
    ELSE IF diff \in {18, 20} THEN 2
    ELSE IF diff \in {19, 22, 28, 29} THEN -1
    ELSE IF diff = 15 THEN 6
    ELSE IF diff = 17 THEN -6
    ELSE 0

\* 1 - h / 100 in double arithmetic.  distance / max is correctly rounded,
\* so the double of 1 - distance / max depends on the quotient only; the
\* offset matters only where the quotient is a whole number of hundredths,
\* the only values a score of another form can take.
levHundredthsRound(h) ==
    IF h \in {18, 41, 42, 43, 57, 58, 59, 69, 70, 71, 83, 84, 85} THEN 1
    ELSE IF h \in {7, 32, 33, 34, 54, 55, 56, 66, 67, 68, 77, 78, 79, 89}
         THEN -1
    ELSE IF h \in {80, 81, 90, 91} THEN -2
    ELSE IF h = 82 THEN 2
    ELSE IF h = 92 THEN -3
    ELSE IF h = 93 THEN -4
    ELSE IF h \in {94, 97} THEN 8
    ELSE IF h = 95 THEN 6
    ELSE IF h \in {96, 98, 99} THEN 5
    ELSE 0

levRound(distance, maxLen) ==
    IF (100 * distance) % maxLen = 0
    THEN levHundredthsRound((100 * distance) \div maxLen)
    ELSE 0

ZeroScore == Hundredths(0, 0)
threshold == Hundredths(70, 0)
wildcardFloor == Hundredths(50, 0)
wildcardScore == Hundredths(81, 0)
suppressedScore == Hundredths(10, 0)
exactScore == Hundredths(100, 0)
prefixScore(len) == Hundredths(90 + len, prefixRound(len))
phoneticScore(diff) == Hundredths(80 - 5 * diff, phoneticRound(diff))
levenshteinScore(distance, maxLen) ==
    [n |-> maxLen - distance, d |-> maxLen, e |-> levRound(distance, maxLen)]

----------------------------------------------------------------------------
(* findBestMatch *)

NoCallback == "null"
NoMatch == [score |-> ZeroScore, callback |-> NoCallback, args |-> <<>>,
            branch |-> "none"]
NoCandidate == [branch |-> "skip"]

Star == <<"*">>

\* lines 126-133: lower-case, trim, and collapse a doubled word
processedTranscript(t) ==
    LET processed == trim(toLowerCase(t))
        words == split(processed)
    IN  IF Len(words) = 2 /\ words[1] = words[2] THEN words[1] ELSE processed

\* lines 144-151: the universal wildcard
wildcardCandidate(bestMatch, callback, t) ==
    [score |-> IF ScoreGT(bestMatch.score, wildcardFloor)
               THEN suppressedScore ELSE wildcardScore,
     callback |-> callback, args |-> <<t>>, branch |-> "wildcard"]

\* lines 152-162: a prefix pattern "<prefix> *"
prefixCandidate(callback, lowerPhrase, t, lowerTranscript) ==
    LET prefix == trim(SubSeq(lowerPhrase, 1, Len(lowerPhrase) - 1))
        arg == trim(substringFrom(t, Len(prefix)))
    IN  IF startsWith(lowerTranscript, prefix) /\ arg # <<>>
        THEN [score |-> prefixScore(Len(prefix)), callback |-> callback,
              args |-> <<arg>>, branch |-> "prefix"]
        ELSE NoCandidate

\* lines 171-182: the phonetic test of a suffix pattern
suffixPhonetic(lowerPhrase, lowerTranscript) ==
    LET mainCommand == findMainCommand(lowerPhrase)
    IN  /\ mainCommand # 0
        /\ \E i \in 1..Len(phoneticSimilarWordsMap[mainCommand].words) :
              soundsSimilar(phoneticSimilarWordsMap[mainCommand].words[i],
                            lowerTranscript)

\* lines 163-190: a suffix pattern "* <suffix>"
suffixCandidate(callback, lowerPhrase, t, lowerTranscript) ==
    LET suffix == trim(Tail(lowerPhrase))
        words == split(lowerTranscript)
        lastWord == words[Len(words)]
        isMatch == \/ endsWith(lowerTranscript, suffix)
                   \/ suffixPhonetic(lowerPhrase, lowerTranscript)
        arg == trim(substring(t, 0, lastIndexOf(lowerTranscript, lastWord)))
    IN  IF isMatch
        THEN [score |-> prefixScore(Len(suffix)), callback |-> callback,
              args |-> <<arg>>, branch |-> "suffix"]
        ELSE NoCandidate

\* lines 199-218: the phonetic test of a literal phrase
literalPhonetic(lowerPhrase, lowerTranscript) ==
    LET own == lookupKey(lowerPhrase)
        mainCommand == findMainCommand(lowerPhrase)
    IN  \/ /\ own # 0
           /\ \E i \in 1..Len(phoneticSimilarWordsMap[own].words) :
                 soundsSimilar(phoneticSimilarWordsMap[own].words[i],
                               lowerTranscript)
        \/ /\ mainCommand # 0
           /\ soundsSimilar(phoneticSimilarWordsMap[mainCommand].words[1],
                            lowerTranscript)

\* lines 191-238: a literal phrase
literalCandidate(callback, lowerPhrase, lowerTranscript) ==
    IF lowerTranscript = lowerPhrase
    THEN [score |-> exactScore, callback |-> callback, args |-> <<>>,
          branch |-> "exact"]
    ELSE IF literalPhonetic(lowerPhrase, lowerTranscript)
    THEN [score |-> phoneticScore(Abs(Len(lowerTranscript) - Len(lowerPhrase))),
          callback |-> callback, args |-> <<>>, branch |-> "phonetic"]
    ELSE [score |-> levenshteinScore(
                       levenshtein(lowerTranscript, lowerPhrase),
                       Max(Len(lowerTranscript), Len(lowerPhrase))),
          callback |-> callback, args |-> <<>>, branch |-> "levenshtein"]

\* lines 142-239: the candidate one phrase produces, by the shape of the phrase
phraseCandidate(bestMatch, callback, phrase, t, lowerTranscript) ==
    LET lowerPhrase == toLowerCase(phrase)
    IN  IF lowerPhrase = Star
        THEN wildcardCandidate(bestMatch, callback, t)
        ELSE IF endsWith(lowerPhrase, Star)
        THEN prefixCandidate(callback, lowerPhrase, t, lowerTranscript)
        ELSE IF startsWith(lowerPhrase, Star)
        THEN suffixCandidate(callback, lowerPhrase, t, lowerTranscript)
        ELSE literalCandidate(callback, lowerPhrase, lowerTranscript)

\* replacement with score >= bestMatch.score: the last of equal scores wins
keepBestLast(acc, cand) ==
    IF cand = NoCandidate THEN acc
    ELSE [best |-> IF ScoreGE(cand.score, acc.best.score) THEN cand
                   ELSE acc.best,
          cands |-> Append(acc.cands, cand)]

\* if (score > bestMatch.score) bestMatch = {score, callback, args}
\* acc.best is bestMatch; acc.cands records every candidate computed
keepBest(acc, cand) ==
    IF cand = NoCandidate THEN acc
    ELSE [best |-> IF ScoreGT(cand.score, acc.best.score) THEN cand
                   ELSE acc.best,
          cands |-> Append(acc.cands, cand)]

\* line 141: for (const phrase of phrases).  (TLC evaluates the arguments of
\* an operator only when they are used; the test next = next, always true,
\* makes it evaluate one iteration before it enters the next.)
RECURSIVE forPhrases(_, _, _, _, _, _)
forPhrases(acc, callback, phrases, k, t, lowerTranscript) ==
    IF k > Len(phrases) THEN acc
    ELSE LET next == keepBest(acc, phraseCandidate(acc.best, callback,
                                     phrases[k], t, lowerTranscript))
         IN  IF next = next
             THEN forPhrases(next, callback, phrases, k + 1, t, lowerTranscript)
             ELSE next

\* a pass that ends at the first command without phrases
RECURSIVE forCommandsAbort(_, _, _, _, _)
forCommandsAbort(acc, cmds, c, t, lowerTranscript) ==
    IF c > Len(cmds) \/ cmds[c].command = <<>> THEN acc
    ELSE LET next == forPhrases(acc, cmds[c].callback, cmds[c].command, 1,
                                t, lowerTranscript)
         IN  IF next = next
             THEN forCommandsAbort(next, cmds, c + 1, t, lowerTranscript)
             ELSE next

\* line 139: for (const {command, callback} of commands)
RECURSIVE forCommands(_, _, _, _, _)
forCommands(acc, cmds, c, t, lowerTranscript) ==
    IF c > Len(cmds) THEN acc
    ELSE LET next == forPhrases(acc, cmds[c].callback, cmds[c].command, 1,
                                t, lowerTranscript)
         IN  IF next = next
             THEN forCommands(next, cmds, c + 1, t, lowerTranscript)
             ELSE next

\* lines 135-241: the pass over all (command, phrase) pairs
matchPass(cmds, t) ==
    forCommands([best |-> NoMatch, cands |-> <<>>], cmds, 1, t,
                processedTranscript(t))

\* acceptance with score > threshold in place of score >= threshold
acceptAbove(bestMatch) ==
    IF ScoreGT(bestMatch.score, threshold) /\ bestMatch.callback # NoCallback
    THEN bestMatch ELSE NoMatch

\* lines 243-249: accept at the threshold, otherwise null
accept(bestMatch) ==
    IF ScoreGE(bestMatch.score, threshold) /\ bestMatch.callback # NoCallback
    THEN bestMatch ELSE NoMatch

findBestMatch(cmds, t) == accept(matchPass(cmds, t).best)

----------------------------------------------------------------------------
(* The command lists the application supplies (App.tsx, useMemo of         *)
(* commands).  A command is [command, callback]: command is the list of    *)
(* its phrases (a single string is a list of one) and callback names the   *)
(* function to run.                                                        *)

Cmd(phrases, callback) == [command |-> phrases, callback |-> callback]

baseCommands ==
    << Cmd(<<<<"h","o","m","e">>, <<"s","t","a","r","t"," ","o","v","e","r">>, <<"m","a","i","n"," ","s","c","r","e","e","n">>>>, "home"),
       Cmd(<<<<"u","p","l","o","a","d">>, <<"u","p","l","o","a","d"," ","i","m","a","g","e">>>>, "upload") >>

retryCommand ==
    Cmd(<<<<"r","e","t","r","y">>, <<"r","e"," ","t","r","y">>, <<"r","e","t","r","i","e">>, <<"t","r","y"," ","a","g","a","i","n">>, <<"r","e","g","e","n","e","r","a","t","e">>>>,
        "retry")

cameraCommands ==
    baseCommands \o
    << Cmd(<<<<"p","h","o","t","o">>, <<"t","a","k","e"," ","a"," ","p","h","o","t","o">>, <<"c","a","p","t","u","r","e">>, <<"s","n","a","p">>>>, "takePicture"),
       Cmd(<<<<"p","h","o","t","o"," ","*"," ","s","e","c","o","n","d","s">>>>, "countdownSeconds"),
       Cmd(<<<<"p","h","o","t","o"," ","*">>>>, "countdown"),
       Cmd(<<<<"b","a","c","k">>>>, "cameraBack") >>

configBaseCommands ==
    baseCommands \o
    << Cmd(<<<<"b","a","c","k">>>>, "configBack"),
       Cmd(<<<<"n","e","x","t">>>>, "next"),
       Cmd(<<<<"s","k","i","p">>>>, "skip"),
       Cmd(<<<<"r","e","s","e","t">>, <<"r","a","i","s","e","d">>>>, "reset"),
       retryCommand,
       Cmd(<<<<"a","u","t","o">>>>, "auto"),
       Cmd(<<<<"c","h","e","c","k">>, <<"e","n","a","b","l","e">>>>, "check"),
       Cmd(<<<<"u","n","c","h","e","c","k">>, <<"d","i","s","a","b","l","e">>>>, "uncheck"),
       Cmd(<<<<"g","e","n","e","r","a","t","e">>, <<"c","o","n","f","i","r","m">>>>, "generate") >>

configCommands(configStep) ==
    configBaseCommands \o
    CASE configStep = "SUBJECT" -> << Cmd(<<<<"*">>>>, "subject") >>
      [] configStep = "POSITION" ->
            << Cmd(<<<<"b","e","g","i","n","n","i","n","g">>, <<"s","t","a","r","t">>>>, "positionStart"),
               Cmd(<<<<"m","i","d","d","l","e">>>>, "positionMiddle"),
               Cmd(<<<<"e","n","d">>, <<"a","n","d">>>>, "positionEnd") >>
      [] configStep = "TYPE" -> << Cmd(<<<<"*">>>>, "storyType") >>
      [] configStep = "LANGUAGE" -> << Cmd(<<<<"*">>>>, "language") >>
      [] OTHER -> << >>

storyCommands ==
    baseCommands \o
    << retryCommand,
       Cmd(<<<<"e","x","p","o","r","t">>, <<"e","x","p","o","r","t"," ","s","t","o","r","y">>>>, "export") >>

homeCommands ==
    baseCommands \o
    << Cmd(<<<<"p","h","o","t","o">>, <<"t","a","k","e"," ","a"," ","p","h","o","t","o">>>>, "openCamera") >>

AppStates == {"HOME", "CAMERA_VIEW", "CONFIG_VIEW", "STORY_VIEW"}
ConfigSteps == {"SUBJECT", "POSITION", "TYPE", "LANGUAGE", "CONFIRM"}

\* ConfigStep is a numeric enum: the steps in the order of their values
stepOrder == <<"SUBJECT", "POSITION", "TYPE", "LANGUAGE", "CONFIRM">>

stepIndex(configStep) == CHOOSE i \in 1..Len(stepOrder) : stepOrder[i] = configStep

Undefined == "undefined"

\* App.tsx 32 (and 88, 256, 264, 431): the story configuration a capture,
\* a reset or a retry restores
defaultStoryConfig ==
    [subject |-> <<>>, position |-> "start", type |-> "context",
     contextStyle |-> Undefined, customPrompt |-> Undefined,
     language |-> <<"E","n","g","l","i","s","h">>, autoPlayAudio |-> TRUE]

\* App.tsx 28-42 and CameraView.tsx 16: the state after the first render.
\* capturedImage is FALSE for null, storyParts is empty or holds "part",
\* countdown is 0 for null, toast is toast.show.
InitialApp ==
    [appState |-> "HOME", capturedImage |-> FALSE, storyParts |-> <<>>,
     storyConfig |-> defaultStoryConfig, configStep |-> "SUBJECT",
     isLoading |-> FALSE, toast |-> FALSE, isExportModalOpen |-> FALSE,
     showUploadButton |-> TRUE, countdown |-> 0]

\* App.tsx 149-454: the list for an application state and wizard step
appCommands(appState, configStep, capturedImage) ==
    CASE appState = "CAMERA_VIEW" -> cameraCommands
      [] appState = "CONFIG_VIEW" -> configCommands(configStep)
      [] appState = "STORY_VIEW" /\ capturedImage -> storyCommands
      [] OTHER -> homeCommands


\* ttsService languageMap: the supported language names, in key order
languageNames ==
  <<
  <<"E","n","g","l","i","s","h">>,
  <<"S","p","a","n","i","s","h">>,
  <<"F","r","e","n","c","h">>,
  <<"G","e","r","m","a","n">>,
  <<"I","t","a","l","i","a","n">>,
  <<"P","o","r","t","u","g","u","e","s","e">>,
  <<"C","h","i","n","e","s","e">>,
  <<"J","a","p","a","n","e","s","e">>,
  <<"K","o","r","e","a","n">>,
  <<"R","u","s","s","i","a","n">>,
  <<"A","r","a","b","i","c">>,
  <<"D","u","t","c","h">>,
  <<"P","o","l","i","s","h">>,
  <<"T","u","r","k","i","s","h">>,
  <<"S","w","e","d","i","s","h">>,
  <<"D","a","n","i","s","h">>,
  <<"N","o","r","w","e","g","i","a","n">>,
  <<"F","i","n","n","i","s","h">>,
  <<"G","r","e","e","k">>,
  <<"C","z","e","c","h">>,
  <<"H","u","n","g","a","r","i","a","n">>,
  <<"T","h","a","i">>,
  <<"V","i","e","t","n","a","m","e","s","e">>,
  <<"I","n","d","o","n","e","s","i","a","n">>,
  <<"M","a","l","a","y">>,
  <<"H","i","n","d","i">>,
  <<"B","e","n","g","a","l","i">>,
  <<"U","r","d","u">>,
  <<"T","a","m","i","l">>,
  <<"T","e","l","u","g","u">>,
  <<"M","a","r","a","t","h","i">>,
  <<"P","u","n","j","a","b","i">>,
  <<"G","u","j","a","r","a","t","i">>,
  <<"M","a","l","a","y","a","l","a","m">>,
  <<"K","a","n","n","a","d","a">>,
  <<"P","e","r","s","i","a","n">>,
  <<"H","e","b","r","e","w">>,
  <<"A","f","r","i","k","a","a","n","s">>,
  <<"B","u","l","g","a","r","i","a","n">>,
  <<"C","a","t","a","l","a","n">>,
  <<"C","r","o","a","t","i","a","n">>,
  <<"E","s","t","o","n","i","a","n">>,
  <<"F","i","l","i","p","i","n","o">>,
  <<"I","c","e","l","a","n","d","i","c">>,
  <<"L","a","t","v","i","a","n">>,
  <<"L","i","t","h","u","a","n","i","a","n">>,
  <<"R","o","m","a","n","i","a","n">>,
  <<"S","e","r","b","i","a","n">>,
  <<"S","l","o","v","a","k">>,
  <<"S","l","o","v","e","n","i","a","n">>,
  <<"U","k","r","a","i","n","i","a","n">>,
  <<"W","e","l","s","h">>
  >>
\* App.tsx 401-422: the LANGUAGE step's callback throws for a name that is
\* not a key of languageMap, compared without regard to case
lowerLanguageNames ==
    {toLowerCase(languageNames[i]) : i \in 1..Len(languageNames)}

languageSupported(lang) == toLowerCase(trim(lang)) \in lowerLanguageNames

\* whether running a callback with these arguments ends in an exception
callbackThrows(callback, args) ==
    callback = "language" /\ ~languageSupported(args[1])

----------------------------------------------------------------------------
(* useVoiceCommands: the recognition session and its handlers *)

CheckMark == "CHECKMARK"    \* the character U+2714 of the success form
CrossMark == "CROSSMARK"    \* the character U+2717 of the error form
BackTick == "BACKTICK"      \* the character U+0060

ListeningText == <<"L","i","s","t","e","n","i","n","g",".",".",".">>
MicOffText == <<"M","i","c"," ","i","s"," ","o","f","f",".">>
NetworkText == <<"N","e","t","w","o","r","k"," ","i","s","s","u","e","."," ","R","e","t","r","y","i","n","g",".",".",".">>
PermissionText == <<"M","i","c"," ","p","e","r","m","i","s","s","i","o","n"," ","e","r","r","o","r","."," ","S","t","o","p","p","i","n","g",".">>
RestartFailedText == <<"M","i","c"," ","f","a","i","l","e","d"," ","t","o"," ","r","e","s","t","a","r","t",".">>
micErrorText(error) == <<"M","i","c"," ","e","r","r","o","r",":"," ">> \o error \o <<".">>

Punctuation ==
    {".", ",", "?", "/", "#", "!", "$", "%", "^", "&", "*", ";", ":",
     "{", "}", "=", "-", "_", BackTick, "~", "(", ")"}

\* line 340: replace(..., ""), every character of the class is deleted
stripPunctuation(s) == SelectSeq(s, LAMBDA c : c \notin Punctuation)

\* line 339-340
cleanTranscript(finalTranscript) ==
    stripPunctuation(toLowerCase(trim(finalTranscript)))

\* the callback of a match run twice
invocationsTwice(m) ==
    IF m # NoMatch
    THEN <<[callback |-> m.callback, args |-> m.args],
           [callback |-> m.callback, args |-> m.args]>>
    ELSE <<>>

\* lines 343-353: the callbacks run for a match result, in order
invocations(m) ==
    IF m # NoMatch THEN <<[callback |-> m.callback, args |-> m.args]>>
    ELSE <<>>

\* a failed callback shown in the unrecognized form
resultTranscriptConflated(m, trimmedTranscript) ==
    IF m # NoMatch /\ ~callbackThrows(m.callback, m.args)
    THEN <<CheckMark, " ">> \o trimmedTranscript
    ELSE <<"?"," ">> \o trimmedTranscript

\* lines 343-353: the transcript shown after a final result
resultTranscript(m, trimmedTranscript) ==
    IF m # NoMatch
    THEN IF callbackThrows(m.callback, m.args)
         THEN <<CrossMark>> \o <<" ","E","r","r","o","r",":"," ">> \o trimmedTranscript
         ELSE <<CheckMark, " ">> \o trimmedTranscript
    ELSE <<"?"," ">> \o trimmedTranscript

\* lines 266-272
resetTranscriptToListening(isListening) ==
    IF isListening THEN ListeningText ELSE MicOffText



(***************************************************************************)
(* The retry loops of the story service (part_002 488-741)                 *)
(***************************************************************************)

\* part_002:494 (and 607, 690)
MAX_RETRIES == 3

\* part_002:495 (and 608, 691)
BASE_DELAY == 1000

\* no call has been made
NoCall ==
    [fn |-> "none", phase |-> "idle", attempt |-> 0, requests |-> 0,
     delay |-> 0, result |-> "none", outcomes |-> <<>>]

ServiceFunctions ==
    {"analyzeImageStyle", "generateStorySegments", "generateImageForSegment"}

\* what a request of generateContent can end with: a usable response, a
\* response the function rejects, an error whose message holds '503', any
\* other error
requestOutcomes(fn) ==
    CASE fn = "analyzeImageStyle" -> {"text", "503", "error"}
      [] fn = "generateStorySegments" -> {"json", "invalidJson", "503", "error"}
      [] fn = "generateImageForSegment" ->
            {"image", "noCandidates", "noInlineData", "503", "error"}

\* lines 520 and 525; 712, 736 and 741
fallback(fn) ==
    IF fn = "analyzeImageStyle" THEN "digital art" ELSE "null"

\* the for statement of lines 497, 640, 693: the function is entered, or the
\* body was left without return, throw or pending delay; the next request
\* is issued
nextAttempt(c) ==
    [c EXCEPT !.phase = "request", !.attempt = c.attempt + 1,
              !.requests = c.requests + 1, !.delay = 0]

\* lines 511-514, 668-671, 707-710, 727-730
backoff(c) ==
    [c EXCEPT !.phase = "backoff", !.delay = BASE_DELAY * 2 ^ c.attempt]

returns(c, value) == [c EXCEPT !.phase = "returned", !.result = value]

\* lines 675 and 662
throws(c, message) == [c EXCEPT !.phase = "thrown", !.result = message]

\* lines 506-522 and 722-738: the catch clause of analyzeImageStyle and of
\* generateImageForSegment
catchWithFallback(c, outcome) ==
    IF outcome = "503" /\ c.attempt < MAX_RETRIES THEN backoff(c)
    ELSE IF c.attempt = MAX_RETRIES THEN returns(c, fallback(c.fn))
    ELSE nextAttempt(c)

\* lines 663-676: the catch clause of generateStorySegments
catchWithThrow(c, outcome) ==
    IF outcome = "503" /\ c.attempt < MAX_RETRIES THEN backoff(c)
    ELSE throws(c, "Failed to generate story segments.")

\* lines 498-522, 641-676, 694-738: the body of the loop once the request
\* has ended
afterRequest(c, outcome) ==
    LET d == [c EXCEPT !.outcomes = Append(c.outcomes, outcome)]
    IN  CASE d.fn = "analyzeImageStyle" ->
               IF outcome = "text" THEN returns(d, "style")
               ELSE catchWithFallback(d, outcome)
          [] d.fn = "generateStorySegments" ->
               IF outcome = "json" THEN returns(d, "segments")
               ELSE catchWithThrow(d, outcome)
          [] d.fn = "generateImageForSegment" ->
               IF outcome = "image" THEN returns(d, "data")
               ELSE IF outcome = "noInlineData" THEN returns(d, "null")
               ELSE IF outcome = "noCandidates"
               THEN IF d.attempt < MAX_RETRIES THEN backoff(d)
                    ELSE returns(d, "null")
               ELSE catchWithFallback(d, outcome)

(***************************************************************************)
(* speakStory (part_002 972-1056) as StoryView calls it (StoryView.tsx     *)
(* 65-85)                                                                  *)
(***************************************************************************)

\* no utterance is with the synthesizer
NoUtterance == -1

\* speakStory has not been called
NoSpeech ==
    [phase |-> "idle", parts |-> 0, currentIndex |-> 0,
     utterance |-> NoUtterance, started |-> FALSE, spoken |-> <<>>,
     partEnds |-> <<>>, finishes |-> 0, isSpeaking |-> FALSE,
     currentlySpeakingPartIndex |-> NoUtterance]

\* StoryView.tsx 79-83: onFinish
onFinish(s) ==
    [s EXCEPT !.finishes = s.finishes + 1, !.isSpeaking = FALSE,
              !.currentlySpeakingPartIndex = NoUtterance]

\* lines 1029-1036
speakNext(s) ==
    IF s.currentIndex < s.parts
    THEN [s EXCEPT !.utterance = s.currentIndex, !.started = FALSE,
                   !.spoken = Append(s.spoken, s.currentIndex)]
    ELSE onFinish(s)

\* StoryView.tsx 65-85 and lines 972-1056: the call.  StoryView calls with
\* one part at least; speakStory itself accepts none.
speakStory(n) ==
    LET s == [NoSpeech EXCEPT !.phase = "called", !.parts = n,
                              !.isSpeaking = n > 0,
                              !.currentlySpeakingPartIndex =
                                   IF n > 0 THEN 0 ELSE NoUtterance]
    IN  IF n > 0 THEN speakNext(s) ELSE onFinish(s)

\* lines 1005-1007 with StoryView.tsx 73-75
utteranceOnStart(s) ==
    [s EXCEPT !.started = TRUE, !.currentlySpeakingPartIndex = s.utterance]

\* lines 1039-1047, the handler that replaces the one of lines 1009-1016
utteranceOnEnd(s) ==
    speakNext([s EXCEPT !.partEnds = Append(s.partEnds, s.utterance),
                        !.currentIndex = s.utterance + 1,
                        !.utterance = NoUtterance])

\* lines 1018-1021
utteranceOnError(s) ==
    [s EXCEPT !.partEnds = Append(s.partEnds, s.utterance),
              !.utterance = NoUtterance]

\* what the recognizer delivers as the text of one result
RecognizerTexts ==
    { <<>>, <<" ">>, <<"P","h","o","t","o",".">>, <<"b","a","c","k">>,
      <<"p","h","o","t","o"," ","i","n"," ","5"," ","s","e","c","o","n","d","s">>, <<"J","a","p","a","n","e","s","e">>, <<"K","l","i","n","g","o","n">>, <<"a","s","d","k","j","h","a","s","d">> }

AppLists ==
    {appCommands(a, s, img) :
        a \in AppStates, s \in ConfigSteps, img \in BOOLEAN}

\* lines 339-341: findBestMatch(commandsRef.current, cleanedTranscript) for
\* every list and text of the model, evaluated once
handlerMatch ==
    [cmds \in AppLists, text \in RecognizerTexts |->
        findBestMatch(cmds, cleanTranscript(text))]

ErrorKinds ==
    {"no-speech", "aborted", "network", "audio-capture", "not-allowed",
     "bad-grammar"}

errorName(error) ==
    CASE error = "bad-grammar" -> <<"b","a","d","-","g","r","a","m","m","a","r">>
      [] OTHER -> <<>>

NoTimer == 0

Init ==
    /\ app = InitialApp
    /\ commands = homeCommands
    /\ input = <<>>
    /\ isFinal = FALSE
    /\ match = NoMatch
    /\ invoked = <<>>
    /\ transcript = ListeningText
    /\ feedbackTimer = FALSE
    /\ isProcessing = FALSE
    /\ listening = FALSE
    /\ session = "idle"
    /\ restartTimer = NoTimer
    /\ isNetworkError = FALSE
    /\ isAbortedError = FALSE
    /\ sessionErrors = {}
    /\ generations = <<>>
    /\ call = NoCall
    /\ speech = NoSpeech
    /\ pc = "hook"

\* line 264: a render of App hands the hook the list of the current screen
SetCommands(cmds) ==
    /\ commands' = cmds
    /\ UNCHANGED <<app, asyncWork, input, isFinal, match, invoked, transcript, feedbackTimer,
                   isProcessing, listening, session, restartTimer,
                   isNetworkError, isAbortedError, sessionErrors, pc>>

\* lines 289-302.  recognition.start() throws when the session it started
\* before has not ended yet.
StartListening ==
    /\ ~listening
    /\ feedbackTimer' = FALSE
    /\ restartTimer' = NoTimer
    /\ IF session = "idle"
       THEN /\ session' = "active"
            /\ listening' = TRUE
            /\ transcript' = ListeningText
       ELSE /\ listening' = FALSE
            /\ UNCHANGED <<session, transcript>>
    /\ UNCHANGED <<app, asyncWork, commands, input, isFinal, match, invoked, isProcessing,
                   isNetworkError, isAbortedError, sessionErrors, pc>>

\* stopListening that clears the timers and stops the recognizer but
\* leaves the listening flag set
StopListeningKeepsFlag ==
    /\ listening
    /\ feedbackTimer' = FALSE
    /\ restartTimer' = NoTimer
    /\ UNCHANGED <<app, asyncWork, commands, input, isFinal, match, invoked, transcript,
                   isProcessing, listening, session, isNetworkError,
                   isAbortedError, sessionErrors, pc>>

\* lines 280-287.  recognition.stop() lets the session run to its end event.
StopListening ==
    /\ listening
    /\ feedbackTimer' = FALSE
    /\ restartTimer' = NoTimer
    /\ listening' = FALSE
    /\ UNCHANGED <<app, asyncWork, commands, input, isFinal, match, invoked, transcript,
                   isProcessing, session, isNetworkError, isAbortedError,
                   sessionErrors, pc>>

\* lines 318-362: recognition.onresult for an event with one result
\* (recognition.continuous is false, line 312)
OnResult(final, text) ==
    /\ session = "active"
    /\ LET finalTranscript == IF final THEN text ELSE <<>>
           interimTranscript == IF final THEN <<>> ELSE text
           displayTranscript == IF interimTranscript # <<>>
                                THEN interimTranscript ELSE finalTranscript
           trimmedTranscript == trim(finalTranscript)
       IN  /\ input' = text
           /\ isFinal' = final
           /\ IF finalTranscript # <<>>
              THEN /\ isProcessing' = TRUE
                   /\ match' = handlerMatch[commands, finalTranscript]
                   /\ invoked' = invocations(match')
                   /\ transcript' = resultTranscript(match', trimmedTranscript)
                   /\ feedbackTimer' = TRUE
              ELSE /\ match' = NoMatch
                   /\ invoked' = <<>>
                   /\ transcript' = displayTranscript
                   /\ feedbackTimer' = FALSE
                   /\ UNCHANGED isProcessing
    /\ UNCHANGED <<app, asyncWork, commands, listening, session, restartTimer,
                   isNetworkError, isAbortedError, sessionErrors, pc>>

\* lines 354-360: the feedback timer fires after 2000 ms
FeedbackTimeout ==
    /\ feedbackTimer
    /\ feedbackTimer' = FALSE
    /\ transcript' = resetTranscriptToListening(listening)
    /\ isProcessing' = FALSE
    /\ UNCHANGED <<app, asyncWork, commands, input, isFinal, match, invoked, listening,
                   session, restartTimer, isNetworkError, isAbortedError,
                   sessionErrors, pc>>

\* lines 364-388: recognition.onerror
OnError(error) ==
    /\ session = "active"
    /\ CASE error = "no-speech" ->
              UNCHANGED <<app, asyncWork, transcript, isAbortedError, isNetworkError,
                          listening, feedbackTimer, restartTimer>>
         [] error = "aborted" ->
              /\ isAbortedError' = TRUE
              /\ UNCHANGED <<app, asyncWork, transcript, isNetworkError, listening,
                             feedbackTimer, restartTimer>>
         [] error = "network" ->
              /\ isNetworkError' = TRUE
              /\ transcript' = NetworkText
              /\ UNCHANGED <<app, asyncWork, isAbortedError, listening, feedbackTimer,
                             restartTimer>>
         [] error \in {"audio-capture", "not-allowed"} ->
              /\ transcript' = PermissionText
              /\ IF listening
                 THEN /\ feedbackTimer' = FALSE
                      /\ restartTimer' = NoTimer
                      /\ listening' = FALSE
                 ELSE UNCHANGED <<app, asyncWork, feedbackTimer, restartTimer, listening>>
              /\ UNCHANGED <<app, asyncWork, isAbortedError, isNetworkError>>
         [] OTHER ->
              /\ transcript' = micErrorText(errorName(error))
              /\ UNCHANGED <<app, asyncWork, isAbortedError, isNetworkError, listening,
                             feedbackTimer, restartTimer>>
    /\ sessionErrors' = sessionErrors \cup ({error} \cap {"network", "aborted"})
    /\ UNCHANGED <<app, asyncWork, commands, input, isFinal, match, invoked, isProcessing,
                   session, pc>>

\* lines 397-405: the delay before the restart
restartDelay(networkError, abortedError) ==
    IF networkError THEN 2500 ELSE IF abortedError THEN 500 ELSE 250

\* lines 390-419: recognition.onend, the session has ended
OnEnd ==
    /\ session = "active"
    /\ session' = "idle"
    /\ IF ~listening
       THEN /\ transcript' = MicOffText
            /\ UNCHANGED <<app, asyncWork, restartTimer, isNetworkError, isAbortedError>>
       ELSE /\ restartTimer' = restartDelay(isNetworkError, isAbortedError)
            /\ isNetworkError' = FALSE
            /\ isAbortedError' = IF isNetworkError THEN isAbortedError
                                 ELSE FALSE
            /\ UNCHANGED transcript
    /\ sessionErrors' = {}
    /\ UNCHANGED <<app, asyncWork, commands, input, isFinal, match, invoked, feedbackTimer,
                   isProcessing, listening, pc>>

\* lines 407-418: the restart timer fires
RestartTimeout ==
    /\ restartTimer # NoTimer
    /\ restartTimer' = NoTimer
    /\ IF listening
       THEN IF session = "idle"
            THEN /\ session' = "active"
                 /\ UNCHANGED <<listening, transcript>>
            ELSE /\ listening' = FALSE
                 /\ transcript' = RestartFailedText
                 /\ UNCHANGED session
       ELSE UNCHANGED <<listening, session, transcript>>
    /\ UNCHANGED <<app, asyncWork, commands, input, isFinal, match, invoked, feedbackTimer,
                   isProcessing, isNetworkError, isAbortedError, sessionErrors,
                   pc>>

Next ==
    \/ \E cmds \in AppLists : SetCommands(cmds)
    \/ StartListening
    \/ StopListening
    \/ \E final \in BOOLEAN, text \in RecognizerTexts : OnResult(final, text)
    \/ FeedbackTimeout
    \/ \E error \in ErrorKinds : OnError(error)
    \/ OnEnd
    \/ RestartTimeout

Spec == Init /\ [][Next]_vars


----------------------------------------------------------------------------
(* The callbacks of the application's commands (App.tsx) and what they do  *)
(* to the App component's state.                                           *)

\* String.prototype.toUpperCase
UpperChar(c) ==
    IF \E i \in 1..26 : LowerChars[i] = c
    THEN UpperChars[CHOOSE i \in 1..26 : LowerChars[i] = c]
    ELSE c

toUpperCase(s) == [i \in 1..Len(s) |-> UpperChar(s[i])]

\* String.prototype.indexOf: the first 0-based position of w in s, or -1
indexOf(s, w) ==
    LET occ == {i \in 0..(Len(s) - Len(w)) : SubSeq(s, i + 1, i + Len(w)) = w}
    IN  IF occ = {} THEN -1 ELSE CHOOSE i \in occ : \A k \in occ : i <= k

\* String.prototype.replace(w, ''): the first occurrence of w is removed
removeFirst(s, w) ==
    LET at == indexOf(s, w)
    IN  IF at < 0 THEN s
        ELSE SubSeq(s, 1, at) \o SubSeq(s, at + Len(w) + 1, Len(s))

DigitChars == <<"0", "1", "2", "3", "4", "5", "6", "7", "8", "9">>

IsDigit(c) == \E i \in 1..Len(DigitChars) : DigitChars[i] = c

digitValue(c) == (CHOOSE i \in 1..Len(DigitChars) : DigitChars[i] = c) - 1

\* the number of leading digits of s
RECURSIVE leadingDigits(_)
leadingDigits(s) ==
    IF Len(s) > 0 /\ IsDigit(s[1]) THEN 1 + leadingDigits(Tail(s)) ELSE 0

\* the value of a string of digits
RECURSIVE digitsValue(_)
digitsValue(s) ==
    IF Len(s) = 0 THEN 0
    ELSE 10 * digitsValue(SubSeq(s, 1, Len(s) - 1)) + digitValue(s[Len(s)])

\* a number n is <<n>>; NaN and null are the empty tuple
NaN == <<>>
Null == <<>>

\* parseInt(s, 10): leading blanks, an optional sign, then the longest run
\* of digits; NaN when there is no digit
parseInt(s) ==
    LET t == trimStart(s)
        signed == Len(t) > 0 /\ t[1] \in {"+", "-"}
        body == IF signed THEN Tail(t) ELSE t
        n == leadingDigits(body)
        value == digitsValue(SubSeq(body, 1, n))
    IN  IF n = 0 THEN NaN
        ELSE IF signed /\ t[1] = "-" THEN <<0 - value>>
        ELSE <<value>>

\* README.md 95-98: the keys of numberWords in order; the value of a key is
\* its position
numberWords ==
    << <<"o","n","e">>, <<"t","w","o">>, <<"t","h","r","e","e">>, <<"f","o","u","r">>, <<"f","i","v","e">>,
       <<"s","i","x">>, <<"s","e","v","e","n">>, <<"e","i","g","h","t">>, <<"n","i","n","e">>, <<"t","e","n">> >>

\* README.md 121-129: the first word that is a number word or parses as a
\* number
RECURSIVE firstNumberWord(_, _)
firstNumberWord(words, i) ==
    IF i > Len(words) THEN Null
    ELSE IF includes(numberWords, words[i])
    THEN <<CHOOSE k \in 1..Len(numberWords) : numberWords[k] = words[i]>>
    ELSE IF parseInt(words[i]) # NaN THEN parseInt(words[i])
    ELSE firstNumberWord(words, i + 1)

\* README.md 100-131
parseNumberFromString(str) ==
    IF str = <<>> THEN Null
    ELSE LET trimmedStr == trim(str)
             num == parseInt(trimmedStr)
             lowerStr == toLowerCase(trimmedStr)
             starts == {k \in 1..Len(numberWords) :
                           startsWith(lowerStr, numberWords[k])}
         IN  IF num # NaN THEN num
             ELSE IF starts # {}
             THEN <<CHOOSE k \in starts : \A l \in starts : k <= l>>
             ELSE firstNumberWord(split(lowerStr), 1)

\* App.tsx 135-140
nextStep(configStep) ==
    IF stepIndex(configStep) >= stepIndex("CONFIRM") THEN "CONFIRM"
    ELSE stepOrder[stepIndex(configStep) + 1]

\* App.tsx 142-147
prevStep(configStep) ==
    IF stepIndex(configStep) <= stepIndex("SUBJECT") THEN "SUBJECT"
    ELSE stepOrder[stepIndex(configStep) - 1]

\* App.tsx 67-70 (the message is hidden again by a timer of 3 s)
showToast(a) == [a EXCEPT !.toast = TRUE]

\* App.tsx 72-100, for a data URL that is valid or not
handleCapture(a, valid) ==
    IF ~valid THEN showToast(a)
    ELSE [a EXCEPT !.capturedImage = TRUE,
                   !.storyParts = <<>>,
                   !.storyConfig = defaultStoryConfig,
                   !.configStep = "SUBJECT",
                   !.appState = "CONFIG_VIEW",
                   !.showUploadButton = FALSE]

\* CameraView.tsx 28-77: the frame is drawn and handed to onCapture, or the
\* video or the data URL is not usable and nothing happens
takePicture(a, captured) == IF captured THEN handleCapture(a, TRUE) ELSE a

\* CameraView.tsx 79-97: the countdown is set; the interval takes the
\* picture later
startCountdown(a, seconds) == [a EXCEPT !.countdown = seconds]

\* the test on numSec without its upper limit
countdownOrToastUnlimited(a, numSec) ==
    IF numSec # Null /\ numSec[1] # 0 /\ numSec[1] > 0
    THEN startCountdown(a, numSec[1])
    ELSE showToast(a)

\* App.tsx 172-176 and 182-186: the test on numSec
countdownOrToast(a, numSec) ==
    IF numSec # Null /\ numSec[1] # 0 /\ numSec[1] > 0 /\ numSec[1] < 11
    THEN startCountdown(a, numSec[1])
    ELSE showToast(a)

\* a return to HOME that keeps the image
goHomeKeepImage(a) ==
    [a EXCEPT !.appState = "HOME", !.storyParts = <<>>,
              !.showUploadButton = TRUE]

\* App.tsx 151-156 (and the camera's back, 188-193)
goHome(a) ==
    [a EXCEPT !.appState = "HOME", !.capturedImage = FALSE,
              !.storyParts = <<>>, !.showUploadButton = TRUE]

\* App.tsx 102-132, up to the await: the story arrives later
handleGenerateStory(a) ==
    IF ~a.capturedImage THEN a
    ELSE showToast([a EXCEPT !.appState = "STORY_VIEW", !.isLoading = TRUE,
                             !.storyParts = <<>>])

\* App.tsx 218-239 (and 268-289)
randomCharacters ==
    << <<"a"," ","b","r","a","v","e"," ","k","n","i","g","h","t">>, <<"a"," ","c","u","r","i","o","u","s"," ","e","x","p","l","o","r","e","r">>, <<"a"," ","c","l","e","v","e","r"," ","d","e","t","e","c","t","i","v","e">>,
       <<"a"," ","m","a","g","i","c","a","l"," ","w","i","z","a","r","d">>, <<"a"," ","f","e","a","r","l","e","s","s"," ","p","i","r","a","t","e">>, <<"a"," ","w","i","s","e"," ","o","w","l">>,
       <<"a"," ","p","l","a","y","f","u","l"," ","m","o","n","k","e","y">>, <<"a"," ","m","y","s","t","e","r","i","o","u","s"," ","s","t","r","a","n","g","e","r">>,
       <<"a"," ","t","a","l","e","n","t","e","d"," ","m","u","s","i","c","i","a","n">>, <<"a"," ","s","k","i","l","l","e","d"," ","a","r","t","i","s","t">>,
       <<"a","n"," ","a","d","v","e","n","t","u","r","o","u","s"," ","c","h","i","l","d">>, <<"a"," ","f","r","i","e","n","d","l","y"," ","r","o","b","o","t">>, <<"a"," ","g","r","a","c","e","f","u","l"," ","d","a","n","c","e","r">>,
       <<"a"," ","c","u","n","n","i","n","g"," ","f","o","x">>, <<"a"," ","l","o","y","a","l"," ","d","o","g">>, <<"a"," ","w","i","s","e"," ","o","l","d"," ","t","u","r","t","l","e">>,
       <<"a"," ","m","i","s","c","h","i","e","v","o","u","s"," ","c","a","t">>, <<"a"," ","g","e","n","t","l","e"," ","g","i","a","n","t">>, <<"a"," ","c","l","e","v","e","r"," ","i","n","v","e","n","t","o","r">>,
       <<"a"," ","b","r","a","v","e"," ","f","i","r","e","f","i","g","h","t","e","r">> >>

\* App.tsx 352 (and 380)
forbiddenSubjects ==
    << <<"p","h","o","t","o">>, <<"t","a","k","e"," ","a"," ","p","h","o","t","o">>, <<"c","a","p","t","u","r","e">>, <<"s","n","a","p">>, <<"b","a","c","k">>, <<"n","e","x","t">>,
       <<"s","k","i","p">>, <<"r","e","s","e","t">>, <<"r","a","i","s","e","d">>, <<"r","e","t","r","y">>, <<"r","e"," ","t","r","y">>, <<"r","e","t","r","i","e">>,
       <<"t","r","y"," ","a","g","a","i","n">>, <<"r","e","g","e","n","e","r","a","t","e">>, <<"a","u","t","o">>, <<"c","h","e","c","k">>, <<"e","n","a","b","l","e">>,
       <<"u","n","c","h","e","c","k">>, <<"d","i","s","a","b","l","e">>, <<"g","e","n","e","r","a","t","e">>, <<"c","o","n","f","i","r","m">>, <<"u","p","l","o","a","d">>,
       <<"u","p","l","o","a","d"," ","i","m","a","g","e">>, <<"b","e","g","i","n","n","i","n","g">>, <<"s","t","a","r","t">>, <<"m","i","d","d","l","e">>, <<"e","n","d">>, <<"a","n","d">> >>

\* text.split(/\s+/).length for a trimmed, non-empty text
RECURSIVE wordCount(_, _)
wordCount(s, i) ==
    IF i > Len(s) THEN 0
    ELSE (IF ~IsSpace(s[i]) /\ (i = 1 \/ IsSpace(s[i - 1])) THEN 1 ELSE 0)
         + wordCount(s, i + 1)

\* App.tsx 404-412: the key of languageMap equal to the name but for case
matchedLanguage(lang) ==
    languageNames[CHOOSE i \in 1..Len(languageNames) :
        /\ toLowerCase(languageNames[i]) = toLowerCase(trim(lang))
        /\ \A k \in 1..(i - 1) :
              toLowerCase(languageNames[k]) # toLowerCase(trim(lang))]

\* App.tsx 200-210
configBack(a) ==
    IF a.configStep = "SUBJECT"
    THEN showToast([a EXCEPT !.appState = "CAMERA_VIEW",
                             !.showUploadButton = FALSE])
    ELSE [a EXCEPT !.configStep = prevStep(a.configStep)]

\* App.tsx 214-246: r is the index Math.random picks
skip(a, r) ==
    IF a.configStep = "SUBJECT" /\ a.storyConfig.subject = <<>>
    THEN showToast([a EXCEPT !.storyConfig.subject = randomCharacters[r],
                             !.configStep = nextStep(a.configStep)])
    ELSE [a EXCEPT !.configStep = nextStep(a.configStep)]

\* App.tsx 248-255
reset(a) ==
    showToast([a EXCEPT !.appState = "CAMERA_VIEW",
                        !.storyConfig = defaultStoryConfig,
                        !.configStep = "SUBJECT",
                        !.showUploadButton = FALSE])

\* App.tsx 256-263 (and 431-438)
retry(a) ==
    showToast([a EXCEPT !.storyConfig = defaultStoryConfig,
                        !.configStep = "SUBJECT",
                        !.appState = "CONFIG_VIEW",
                        !.showUploadButton = FALSE])

\* App.tsx 264-319
auto(a, r) ==
    LET set ==
          CASE a.configStep = "SUBJECT" ->
                 [a EXCEPT !.storyConfig.subject = randomCharacters[r]]
            [] a.configStep = "POSITION" ->
                 [a EXCEPT !.storyConfig.position = "start"]
            [] a.configStep = "TYPE" ->
                 [a EXCEPT !.storyConfig.type = "context",
                           !.storyConfig.contextStyle = Undefined,
                           !.storyConfig.customPrompt = Undefined]
            [] a.configStep = "LANGUAGE" ->
                 [a EXCEPT !.storyConfig.language = <<"E","n","g","l","i","s","h">>]
            [] OTHER ->
                 [a EXCEPT !.storyConfig.autoPlayAudio =
                               ~a.storyConfig.autoPlayAudio]
    IN  showToast([set EXCEPT !.configStep = nextStep(a.configStep)])

\* App.tsx 320-335
setAutoPlay(a, on) ==
    IF a.configStep = "CONFIRM"
    THEN showToast([a EXCEPT !.storyConfig.autoPlayAudio = on])
    ELSE showToast(a)

\* the generate callback without the test of the wizard step
generateAtAnyStep(a) == handleGenerateStory(a)

\* App.tsx 336-342
generate(a) ==
    IF a.configStep = "CONFIRM" THEN handleGenerateStory(a) ELSE showToast(a)

\* App.tsx 347-363
subject(a, text) ==
    IF includes(forbiddenSubjects, toLowerCase(trim(text)))
    THEN showToast(a)
    ELSE [a EXCEPT !.storyConfig.subject = text,
                   !.configStep = nextStep(a.configStep)]

\* App.tsx 366-368
position(a, where) ==
    [a EXCEPT !.storyConfig.position = where,
              !.configStep = nextStep(a.configStep)]

\* App.tsx 371-398
storyType(a, text) ==
    LET trimmedText == trim(text)
    IN  IF trimmedText = <<>> THEN a
        ELSE IF includes(forbiddenSubjects, toLowerCase(trimmedText))
        THEN showToast(a)
        ELSE IF wordCount(trimmedText, 1) <= 3
        THEN showToast([a EXCEPT !.storyConfig.type = "context",
                                 !.storyConfig.contextStyle = trimmedText,
                                 !.storyConfig.customPrompt = Undefined,
                                 !.configStep = nextStep(a.configStep)])
        ELSE showToast([a EXCEPT !.storyConfig.type = "custom",
                                 !.storyConfig.customPrompt = trimmedText,
                                 !.storyConfig.contextStyle = Undefined,
                                 !.configStep = nextStep(a.configStep)])

\* App.tsx 401-422, for a name that is supported (the callback throws for
\* any other before it sets anything)
language(a, lang) ==
    [a EXCEPT !.storyConfig.language = matchedLanguage(lang),
              !.configStep = nextStep(a.configStep)]

\* the state a callback leaves behind; r is the index Math.random picks
\* and captured whether the camera delivers a frame.  A phrase without a
\* star passes no argument: the parameter is undefined.
runCallback(a, callback, args, r, captured) ==
    CASE callback = "home" -> goHome(a)
      [] callback = "upload" -> showToast(a)
      [] callback = "takePicture" -> takePicture(a, captured)
      [] callback = "countdownSeconds" ->
            countdownOrToast(a, IF args = <<>> THEN Null
                                ELSE parseNumberFromString(args[1]))
      [] callback = "countdown" ->
            countdownOrToast(a,
                parseNumberFromString(
                    trim(removeFirst(toLowerCase(args[1]), <<"s","e","c","o","n","d","s">>))))
      [] callback = "cameraBack" -> goHome(a)
      [] callback = "configBack" -> configBack(a)
      [] callback = "next" ->
            [a EXCEPT !.configStep = nextStep(a.configStep)]
      [] callback = "skip" -> skip(a, r)
      [] callback = "reset" -> reset(a)
      [] callback = "retry" -> retry(a)
      [] callback = "auto" -> auto(a, r)
      [] callback = "check" -> setAutoPlay(a, TRUE)
      [] callback = "uncheck" -> setAutoPlay(a, FALSE)
      [] callback = "generate" -> generate(a)
      [] callback = "subject" -> subject(a, args[1])
      [] callback = "positionStart" -> position(a, "start")
      [] callback = "positionMiddle" -> position(a, "middle")
      [] callback = "positionEnd" -> position(a, "end")
      [] callback = "storyType" -> storyType(a, args[1])
      [] callback = "language" -> language(a, args[1])
      [] callback = "export" -> [a EXCEPT !.isExportModalOpen = TRUE]
      [] callback = "openCamera" ->
            [a EXCEPT !.showUploadButton = FALSE, !.appState = "CAMERA_VIEW"]
      [] OTHER -> a

\* the values Math.random can pick, where the callback uses it
randomChoices(a, m) ==
    IF \/ m.callback = "auto" /\ a.configStep = "SUBJECT"
       \/ m.callback = "skip" /\ a.configStep = "SUBJECT"
                              /\ a.storyConfig.subject = <<>>
    THEN 1..Len(randomCharacters) ELSE {1}

\* what the camera can do, where the callback uses it
captureChoices(m) ==
    IF m.callback = "takePicture" THEN BOOLEAN ELSE {TRUE}

----------------------------------------------------------------------------
(* The application and the hook together: one final result is handled in   *)
(* a state of the application, with the command list of that state.        *)

modifiedStoryConfig ==
    [subject |-> <<"a"," ","r","e","d"," ","d","r","a","g","o","n">>, position |-> "end", type |-> "custom",
     contextStyle |-> Undefined, customPrompt |-> <<"a"," ","t","a","l","e"," ","o","f"," ","t","h","e"," ","s","e","a">>,
     language |-> <<"F","r","e","n","c","h">>, autoPlayAudio |-> FALSE]

\* States of the App component.  HOME is entered with the image and the
\* parts cleared; CAMERA_VIEW is entered from HOME or, keeping the image,
\* by back or reset from the wizard; CONFIG_VIEW and STORY_VIEW are entered
\* only with an image, CONFIG_VIEW from STORY_VIEW with the parts kept.
AppInitStates ==
    {InitialApp}
    \cup {[InitialApp EXCEPT !.appState = "CAMERA_VIEW",
                             !.showUploadButton = FALSE,
                             !.capturedImage = img,
                             !.storyParts = IF img THEN parts ELSE <<>>] :
             img \in BOOLEAN, parts \in {<<>>, <<"part">>}}
    \cup {[InitialApp EXCEPT !.appState = "CONFIG_VIEW",
                             !.showUploadButton = FALSE,
                             !.capturedImage = TRUE,
                             !.configStep = step,
                             !.storyConfig = config] :
             step \in ConfigSteps,
             config \in {defaultStoryConfig, modifiedStoryConfig}}
    \cup {[InitialApp EXCEPT !.appState = "CONFIG_VIEW",
                             !.showUploadButton = FALSE,
                             !.capturedImage = TRUE,
                             !.storyParts = <<"part">>]}
    \cup {[InitialApp EXCEPT !.appState = "STORY_VIEW",
                             !.showUploadButton = FALSE,
                             !.capturedImage = TRUE,
                             !.configStep = "CONFIRM",
                             !.storyConfig = config,
                             !.isLoading = loading,
                             !.storyParts = IF loading THEN <<>>
                                            ELSE <<"part">>] :
             config \in {defaultStoryConfig, modifiedStoryConfig},
             loading \in BOOLEAN}

NavigationTexts ==
    { <<"h","o","m","e">>, <<"s","t","a","r","t"," ","o","v","e","r">>, <<"m","a","i","n"," ","s","c","r","e","e","n">>, <<"H","o","m","e",".">>, <<"b","a","c","k">>, <<"r","e","s","e","t">>,
      <<"r","a","i","s","e","d">>, <<"r","e","t","r","y">>, <<"p","h","o","t","o">>, <<"n","e","x","t">>, <<"s","k","i","p">>, <<"a","u","t","o">>, <<"g","e","n","e","r","a","t","e">>,
      <<"c","o","n","f","i","r","m">>, <<"e","x","p","o","r","t">>, <<"a"," ","r","e","d"," ","d","r","a","g","o","n">> }

NumberDigits ==
    << <<"1">>, <<"2">>, <<"3">>, <<"4">>, <<"5">>, <<"6">>, <<"7">>, <<"8">>, <<"9">>, <<"1","0">> >>

\* "photo in N seconds" and "photo N seconds" for a spoken N
countdownTexts(spoken) ==
    { <<"p","h","o","t","o"," ","i","n"," ">> \o spoken \o <<" ","s","e","c","o","n","d","s">>, <<"p","h","o","t","o"," ">> \o spoken \o <<" ","s","e","c","o","n","d","s">> }

CountdownTexts ==
    UNION {countdownTexts(NumberDigits[n]) \cup countdownTexts(numberWords[n]) :
              n \in 1..Len(numberWords)}

\* other things said to the camera
CameraTexts ==
    { <<"p","h","o","t","o"," ","0"," ","s","e","c","o","n","d","s">>, <<"p","h","o","t","o"," ","1","1"," ","s","e","c","o","n","d","s">>, <<"p","h","o","t","o"," ","i","n"," ","1","0","0"," ","s","e","c","o","n","d","s">>,
      <<"p","h","o","t","o"," ","-","5"," ","s","e","c","o","n","d","s">>, <<"p","h","o","t","o"," ","+","1","2"," ","s","e","c","o","n","d","s">>, <<"p","h","o","t","o"," ","e","l","e","v","e","n"," ","s","e","c","o","n","d","s">>,
      <<"p","h","o","t","o"," ","s","e","c","o","n","d","s">>, <<"p","h","o","t","o"," ","5">>, <<"P","h","o","t","o"," ","i","n"," ","f","i","v","e",".">>, <<"p","h","o","t","o"," ","t","e","n">>,
      <<"p","h","o","t","o"," ","*"," ","s","e","c","o","n","d","s">>, <<"s","n","a","p">> }

LanguageTexts ==
    UNION {{languageNames[i], toLowerCase(languageNames[i]),
            toUpperCase(languageNames[i])} : i \in 1..Len(languageNames)}

\* the final transcripts delivered in a state of the application
AppTexts(a) ==
    NavigationTexts
    \cup (IF a.appState = "CAMERA_VIEW"
          THEN CountdownTexts \cup CameraTexts ELSE {})
    \cup (IF a.appState = "CONFIG_VIEW" /\ a.configStep = "LANGUAGE"
          THEN LanguageTexts ELSE {})

\* App.tsx:465, the prefix as the file spells it: the three characters
\* U+00E2, U+0153, U+201D, not the U+2714 that the hook writes
AppSuccessPrefix == <<"U+00E2", "U+0153", "U+201D">>

\* App.tsx 464-472: the effect that follows every change of the transcript
commandStatusOf(t) ==
    IF startsWith(t, AppSuccessPrefix) THEN "success"
    ELSE IF startsWith(t, <<"?">>) THEN "error"
    ELSE "idle"

\* App.tsx:39 with the effect of 464-472 applied to the hook's transcript
commandStatus == commandStatusOf(transcript)

AppInit ==
    /\ app \in AppInitStates
    /\ commands = appCommands(app.appState, app.configStep, app.capturedImage)
    /\ input = <<>>
    /\ isFinal = FALSE
    /\ match = NoMatch
    /\ invoked = <<>>
    /\ transcript = ListeningText
    /\ feedbackTimer = FALSE
    /\ isProcessing = FALSE
    /\ listening = TRUE
    /\ session = "active"
    /\ restartTimer = NoTimer
    /\ isNetworkError = FALSE
    /\ isAbortedError = FALSE
    /\ sessionErrors = {}
    /\ generations = IF app.isLoading THEN <<"running">> ELSE <<>>
    /\ call = NoCall
    /\ speech = NoSpeech
    /\ pc = "ready"

\* App.tsx 336-338 and 102-115: the matched command calls
\* handleGenerateStory, which passes the test of the image and reaches the
\* await
startsGeneration(a, m) ==
    /\ m # NoMatch
    /\ m.callback = "generate"
    /\ ~callbackThrows(m.callback, m.args)
    /\ a.configStep = "CONFIRM"
    /\ a.capturedImage

\* part_002 318-362 with the callbacks of App.tsx 149-454: a final result
\* is matched against the list of the last render, the callback changes
\* the state of the App, and the render that follows supplies the list of
\* the new state
AppResult(text) ==
    /\ session = "active"
    /\ input' = text
    /\ text # <<>>
    /\ isFinal' = TRUE
    /\ isProcessing' = TRUE
    /\ match' = findBestMatch(commands, cleanTranscript(text))
    /\ invoked' = invocations(match')
    /\ transcript' = resultTranscript(match', trim(text))
    /\ feedbackTimer' = TRUE
    /\ \E r \in randomChoices(app, match'), captured \in captureChoices(match') :
          app' = IF match' = NoMatch
                    \/ callbackThrows(match'.callback, match'.args)
                 THEN app
                 ELSE runCallback(app, match'.callback, match'.args,
                                  r, captured)
    /\ generations' = IF startsGeneration(app, match')
                       THEN Append(generations, "running")
                       ELSE generations
    /\ commands' = appCommands(app'.appState, app'.configStep,
                               app'.capturedImage)
    /\ UNCHANGED <<listening, session, restartTimer, isNetworkError,
                   isAbortedError, sessionErrors, call, speech>>

\* one final result, handled once
AppOnResult(text) ==
    /\ pc = "ready"
    /\ AppResult(text)
    /\ pc' = "done"

AppNext == \E text \in AppTexts(app) : AppOnResult(text)

SpecApp == AppInit /\ [][AppNext]_vars

----------------------------------------------------------------------------
(* findBestMatch as a function: SpecMatch applies it to a command list     *)
(* drawn from a pool of commands and a transcript drawn from a set of      *)
(* texts; SpecTable applies it to the pairs of the phonetic table.         *)

MaxCommands == 2

CommandPool ==
    { Cmd(<<<<"h","o","m","e">>, <<"s","t","a","r","t"," ","o","v","e","r">>, <<"m","a","i","n"," ","s","c","r","e","e","n">>>>, "home"),
      Cmd(<<<<"p","h","o","t","o">>, <<"t","a","k","e"," ","a"," ","p","h","o","t","o">>, <<"c","a","p","t","u","r","e">>, <<"s","n","a","p">>>>, "takePicture"),
      Cmd(<<<<"p","h","o","t","o"," ","*">>>>, "countdown"),
      Cmd(<<<<"b","a","c","k">>>>, "back"),
      Cmd(<<<<"*">>>>, "freeText"),
      Cmd(<<<<"*"," ","e","n","d">>>>, "suffixEnd"),
      Cmd(<<<<"*"," ","m","a","i","n"," ","s","c","r","e","e","n">>>>, "suffixScreen"),
      Cmd(<<>>, "noPhrases") }

\* the lists of up to MaxCommands distinct commands of the pool, in any order
MatchLists ==
    UNION {{l \in [1..n -> CommandPool] :
               \A i, j \in 1..n : l[i] = l[j] => i = j} :
              n \in 1..MaxCommands}

MatchTranscripts ==
    { <<>>, <<" "," ">>, <<"p","h","o","t","o">>, <<"p","h","o","t","o"," ","p","h","o","t","o">>, <<"p","h","o","t","o"," ","5">>, <<" ","P","h","o","t","o"," ","5"," ">>,
      <<"p","a","c","k">>, <<"s","t","o","r","y"," ","a","n","d">>, <<"t","h","e"," ","s","t","o","r","y"," ","e","n","d">>, <<"m","a","i","n"," ","s","c","r","e","e","n">>,
      <<"s","t","a","l","e"," ","o","v","e","n">>, <<"s","t","a","l","k"," ","o","x","e","n">>, <<"a","s","d","k","j","h","a","s","d">> }

\* the hook and the application at rest while the matcher is exercised
HookAtRest ==
    /\ app = InitialApp
    /\ isFinal = FALSE
    /\ invoked = <<>>
    /\ transcript = ListeningText
    /\ feedbackTimer = FALSE
    /\ isProcessing = FALSE
    /\ listening = FALSE
    /\ session = "idle"
    /\ restartTimer = NoTimer
    /\ isNetworkError = FALSE
    /\ isAbortedError = FALSE
    /\ sessionErrors = {}
    /\ generations = <<>>
    /\ call = NoCall
    /\ speech = NoSpeech

MatchInit ==
    /\ commands \in MatchLists
    /\ input \in MatchTranscripts
    /\ match = NoMatch
    /\ pc = "ready"
    /\ HookAtRest

\* one call findBestMatch(commands, input)
RunMatch ==
    /\ pc = "ready"
    /\ match' = findBestMatch(commands, input)
    /\ pc' = "done"
    /\ UNCHANGED <<app, asyncWork, commands, input, isFinal, invoked, transcript,
                   feedbackTimer, isProcessing, listening, session,
                   restartTimer, isNetworkError, isAbortedError,
                   sessionErrors>>

MatchNext == RunMatch

SpecMatch == MatchInit /\ [][MatchNext]_vars

\* commands that share a phrase, and a command without phrases
OrderPool ==
    { Cmd(<<<<"h","o","m","e">>, <<"s","t","a","r","t"," ","o","v","e","r">>, <<"m","a","i","n"," ","s","c","r","e","e","n">>>>, "home"),
      Cmd(<<<<"p","h","o","t","o">>, <<"t","a","k","e"," ","a"," ","p","h","o","t","o">>, <<"c","a","p","t","u","r","e">>, <<"s","n","a","p">>>>, "takePicture"),
      Cmd(<<<<"p","h","o","t","o">>, <<"t","a","k","e"," ","a"," ","p","h","o","t","o">>>>, "openCamera"),
      Cmd(<<<<"*">>>>, "freeText"),
      Cmd(<<>>, "noPhrases") }

OrderLists ==
    UNION {{l \in [1..n -> OrderPool] :
               \A i, j \in 1..n : l[i] = l[j] => i = j} :
              n \in 1..MaxCommands}

OrderTranscripts ==
    { <<>>, <<"p","h","o","t","o">>, <<"T","a","k","e"," ","a"," ","p","h","o","t","o">>, <<"t","a","k","e"," ","a"," ","f","o","t","o">>, <<"m","a","i","n"," ","s","c","r","e","e","n">>,
      <<"s","n","a","p">>, <<"a"," ","s","t","o","r","y">>, <<"a","s","d","k","j","h","a","s","d">> }

OrderInit ==
    /\ commands \in OrderLists
    /\ input \in OrderTranscripts
    /\ match = NoMatch
    /\ pc = "ready"
    /\ HookAtRest

SpecOrder == OrderInit /\ [][MatchNext]_vars

MaxLen == 3

LevAlphabet == {"a", "b"}

\* the strings of up to MaxLen characters of the alphabet
LevStrings == UNION {[1..n -> LevAlphabet] : n \in 0..MaxLen}

\* a single command with one literal phrase
literalCommand(phrase) == <<Cmd(<<phrase>>, "literal")>>

LevInit ==
    /\ \E p \in LevStrings : commands = literalCommand(p)
    /\ input \in LevStrings
    /\ match = NoMatch
    /\ pc = "ready"
    /\ HookAtRest

SpecLev == LevInit /\ [][MatchNext]_vars

\* the pairs (k, i): word i of the class keyed by key k
TablePairs ==
    UNION {{<<k, i>> : i \in 1..Len(phoneticSimilarWordsMap[k].words)} :
              k \in 1..Len(phoneticSimilarWordsMap)}

tableKey(p) == phoneticSimilarWordsMap[p[1]].key
tableWord(p) == phoneticSimilarWordsMap[p[1]].words[p[2]]

\* the key as phrase and the word as transcript, or the other way round
TableInit ==
    /\ \E p \in TablePairs :
          \/ commands = literalCommand(tableKey(p)) /\ input = tableWord(p)
          \/ commands = literalCommand(tableWord(p)) /\ input = tableKey(p)
    /\ match = NoMatch
    /\ pc = "ready"
    /\ HookAtRest

SpecTable == TableInit /\ [][MatchNext]_vars



\* ---- the listening lifecycle of the hook, with its timers ----

\* what the recognizer returns in the lifecycle runs: a recognized phrase
\* and an unrecognized one
LifeTexts == { <<"P","h","o","t","o",".">>, <<"a","s","d","k","j","h","a","s","d">> }

LifeNext ==
    \/ StartListening
    \/ StopListening
    \/ \E final \in BOOLEAN, text \in LifeTexts : OnResult(final, text)
    \/ FeedbackTimeout
    \/ \E error \in ErrorKinds : OnError(error)
    \/ OnEnd
    \/ RestartTimeout

\* A timer set with setTimeout fires unless it is cleared (lines 354, 407),
\* and a session started with continuous = false (line 312) ends with an
\* end event.  The user's startListening and stopListening, the results and
\* the errors may or may not come.
SpecLife ==
    /\ Init
    /\ [][LifeNext]_vars
    /\ WF_vars(FeedbackTimeout)
    /\ WF_vars(RestartTimeout)
    /\ WF_vars(OnEnd)


\* ---- story generations in flight (App.tsx 102-132) ----

MaxGenerations == 2

\* the parts that generation k resolves with, one name for each k
storyOfGeneration == << "story 1", "story 2", "story 3", "story 4" >>

\* App.tsx:128, the part shown when generateSegmentedStoryWithImages rejects
ApologyPart == "Sorry, I couldn't think of a story for this image."

\* App.tsx 117-131: the continuation after the await.  It sets the parts
\* (and the title with them) and clears isLoading, whatever was started
\* since.
storySettled(a, parts) ==
    showToast([a EXCEPT !.storyParts = parts, !.isLoading = FALSE])

\* what is said while stories are generated
GenTexts == { <<"g","e","n","e","r","a","t","e">>, <<"r","e","t","r","y">>, <<"n","e","x","t">>, <<"h","o","m","e">> }

\* an App with no generation in flight
GenInit ==
    /\ AppInit
    /\ ~app.isLoading

\* a final result; handleGenerateStory is called MaxGenerations times at most
GenOnResult(text) ==
    /\ AppResult(text)
    /\ Len(generations') <= MaxGenerations
    /\ UNCHANGED pc

\* App.tsx 116-119 and 129-131: generateSegmentedStoryWithImages resolves
GenerationResolves(k) ==
    /\ k \in 1..Len(generations)
    /\ generations[k] = "running"
    /\ generations' = [generations EXCEPT ![k] = "resolved"]
    /\ app' = storySettled(app, <<storyOfGeneration[k]>>)
    /\ commands' = appCommands(app'.appState, app'.configStep,
                               app'.capturedImage)
    /\ UNCHANGED <<input, isFinal, match, invoked, transcript, feedbackTimer,
                   isProcessing, listening, session, restartTimer,
                   isNetworkError, isAbortedError, sessionErrors, call,
                   speech, pc>>

\* App.tsx 124-131: generateSegmentedStoryWithImages rejects
GenerationRejects(k) ==
    /\ k \in 1..Len(generations)
    /\ generations[k] = "running"
    /\ generations' = [generations EXCEPT ![k] = "rejected"]
    /\ app' = storySettled(app, <<ApologyPart>>)
    /\ commands' = appCommands(app'.appState, app'.configStep,
                               app'.capturedImage)
    /\ UNCHANGED <<input, isFinal, match, invoked, transcript, feedbackTimer,
                   isProcessing, listening, session, restartTimer,
                   isNetworkError, isAbortedError, sessionErrors, call,
                   speech, pc>>

GenNext ==
    \/ \E text \in GenTexts : GenOnResult(text)
    \/ \E k \in 1..MaxGenerations : GenerationResolves(k)
    \/ \E k \in 1..MaxGenerations : GenerationRejects(k)

SpecGen == GenInit /\ [][GenNext]_vars


\* ---- a call of a function of the story service ----

ServiceInit ==
    /\ commands = homeCommands
    /\ input = <<>>
    /\ match = NoMatch
    /\ pc = "ready"
    /\ HookAtRest

\* the function is called and issues its first request
CallService(fn) ==
    /\ call.phase = "idle"
    /\ call' = [NoCall EXCEPT !.fn = fn, !.phase = "request", !.requests = 1]
    /\ UNCHANGED <<app, commands, input, isFinal, match, invoked, transcript,
                   feedbackTimer, isProcessing, listening, session,
                   restartTimer, isNetworkError, isAbortedError,
                   sessionErrors, generations, speech, pc>>

\* the request ends
RequestEnds(outcome) ==
    /\ call.phase = "request"
    /\ outcome \in requestOutcomes(call.fn)
    /\ call' = afterRequest(call, outcome)
    /\ UNCHANGED <<app, commands, input, isFinal, match, invoked, transcript,
                   feedbackTimer, isProcessing, listening, session,
                   restartTimer, isNetworkError, isAbortedError,
                   sessionErrors, generations, speech, pc>>

\* the delay of the backoff has passed
BackoffElapsed ==
    /\ call.phase = "backoff"
    /\ call' = nextAttempt(call)
    /\ UNCHANGED <<app, commands, input, isFinal, match, invoked, transcript,
                   feedbackTimer, isProcessing, listening, session,
                   restartTimer, isNetworkError, isAbortedError,
                   sessionErrors, generations, speech, pc>>

AllOutcomes == UNION {requestOutcomes(fn) : fn \in ServiceFunctions}

RetryNext ==
    \/ \E fn \in ServiceFunctions : CallService(fn)
    \/ \E outcome \in AllOutcomes : RequestEnds(outcome)
    \/ BackoffElapsed

SpecRetry == ServiceInit /\ [][RetryNext]_vars

\* ---- a narration ----

MaxParts == 8

\* speakStory is called with n parts
SpeakStory(n) ==
    /\ speech.phase = "idle"
    /\ speech' = speakStory(n)
    /\ UNCHANGED <<app, commands, input, isFinal, match, invoked, transcript,
                   feedbackTimer, isProcessing, listening, session,
                   restartTimer, isNetworkError, isAbortedError,
                   sessionErrors, generations, call, pc>>

\* the synthesizer begins the utterance it was handed
UtteranceStart ==
    /\ speech.utterance # NoUtterance
    /\ ~speech.started
    /\ speech' = utteranceOnStart(speech)
    /\ UNCHANGED <<app, commands, input, isFinal, match, invoked, transcript,
                   feedbackTimer, isProcessing, listening, session,
                   restartTimer, isNetworkError, isAbortedError,
                   sessionErrors, generations, call, pc>>

\* the utterance has been spoken to its end
UtteranceEnd ==
    /\ speech.utterance # NoUtterance
    /\ speech.started
    /\ speech' = utteranceOnEnd(speech)
    /\ UNCHANGED <<app, commands, input, isFinal, match, invoked, transcript,
                   feedbackTimer, isProcessing, listening, session,
                   restartTimer, isNetworkError, isAbortedError,
                   sessionErrors, generations, call, pc>>

\* the utterance fails, before or while it is spoken
UtteranceError ==
    /\ speech.utterance # NoUtterance
    /\ speech' = utteranceOnError(speech)
    /\ UNCHANGED <<app, commands, input, isFinal, match, invoked, transcript,
                   feedbackTimer, isProcessing, listening, session,
                   restartTimer, isNetworkError, isAbortedError,
                   sessionErrors, generations, call, pc>>

\* the synthesizer's answer to an utterance
UtteranceEvent == UtteranceStart \/ UtteranceEnd \/ UtteranceError

SpeechNext ==
    \/ \E n \in 0..MaxParts : SpeakStory(n)
    \/ UtteranceStart
    \/ UtteranceEnd
    \/ UtteranceError

\* The synthesizer answers every utterance handed to it with speak(): it
\* starts it and ends it, or reports an error.  Which of the two is left
\* open.
SpecSpeech ==
    /\ ServiceInit
    /\ [][SpeechNext]_vars
    /\ WF_vars(UtteranceEvent)

----------------------------------------------------------------------------
(* Properties of recognition.onresult, under Spec *)

\* what a final result leaves behind: one callback of the active list was
\* run and the success or the error form is shown, or no callback was run
\* and the unrecognized form is shown
resultHandled(text) ==
    \/ /\ Len(invoked') = 1
       /\ \E c \in 1..Len(commands) :
             invoked'[1].callback = commands[c].callback
       /\ transcript' \in {<<CheckMark, " ">> \o trim(text),
                           <<CrossMark>> \o <<" ","E","r","r","o","r",":"," ">> \o trim(text)}
    \/ /\ invoked' = <<>>
       /\ transcript' = <<"?"," ">> \o trim(text)

C15CallbackThrows ==
    [][\A text \in RecognizerTexts :
          (/\ OnResult(TRUE, text)
           /\ match' # NoMatch
           /\ callbackThrows(match'.callback, match'.args))
          => /\ invoked' = <<[callback |-> match'.callback,
                               args |-> match'.args]>>
             /\ transcript' = <<CrossMark>> \o <<" ","E","r","r","o","r",":"," ">> \o trim(text)
             /\ transcript' # <<CheckMark, " ">> \o trim(text)
             /\ transcript' # <<"?"," ">> \o trim(text)
             /\ feedbackTimer'
             /\ session' = "active"
             /\ commands' = commands]_vars

\* a final "Klingon" at the language step: the callback threw
C15Witness ==
    /\ isFinal
    /\ input = <<"K","l","i","n","g","o","n">>
    /\ invoked = <<[callback |-> "language", args |-> <<<<"k","l","i","n","g","o","n">>>>]>>
    /\ transcript = <<CrossMark>> \o <<" ","E","r","r","o","r",":"," ">> \o <<"K","l","i","n","g","o","n">>
    /\ feedbackTimer
    /\ session = "active"

----------------------------------------------------------------------------
(* Properties of findBestMatch, under SpecMatch *)

\* C2: whatever the order of the commands, if some literal, prefix or
\* suffix phrase of the list scores above 0.5 for the transcript,
\* findBestMatch does not return the universal wildcard command.
C2WildcardSuppressed ==
    pc = "done" =>
        LET cands == matchPass(commands, input).cands
        IN  (\E k \in 1..Len(cands) :
                /\ cands[k].branch # "wildcard"
                /\ ScoreGT(cands[k].score, wildcardFloor))
            => match.branch # "wildcard"

\* C3: findBestMatch returns a result if and only if the best candidate
\* score is at least 0.7; the result carries that best score, and without
\* a result no callback is run.
C3Threshold ==
    pc = "done" =>
        LET cands == matchPass(commands, input).cands
        IN  /\ match # NoMatch <=>
                  \E k \in 1..Len(cands) : ScoreGE(cands[k].score, threshold)
            /\ match # NoMatch =>
                  \A k \in 1..Len(cands) :
                      ScoreGE(match.score, cands[k].score)
            /\ match = NoMatch => invocations(match) = <<>>

\* a best score of exactly 0.7, edit distance 3 over length 10, is accepted
C3Witness ==
    /\ pc = "done"
    /\ input = <<"s","t","a","l","e"," ","o","v","e","n">>
    /\ match.branch = "levenshtein"
    /\ match.callback = "home"
    /\ ScoreEQ(match.score, threshold)

\* C4: when the list holds a literal phrase equal to the normalized
\* transcript, findBestMatch returns score 1.0, no arguments and the
\* callback of a command holding that phrase, never a prefix, suffix or
\* wildcard candidate.
C4ExactWins ==
    pc = "done" =>
        LET holders ==
                {c \in 1..Len(commands) :
                    \E j \in 1..Len(commands[c].command) :
                        LET lowerPhrase == toLowerCase(commands[c].command[j])
                        IN  /\ ~endsWith(lowerPhrase, Star)
                            /\ ~startsWith(lowerPhrase, Star)
                            /\ lowerPhrase = processedTranscript(input)}
        IN  holders # {} =>
                /\ match.branch = "exact"
                /\ ScoreEQ(match.score, exactScore)
                /\ match.args = <<>>
                /\ \E c \in holders : match.callback = commands[c].callback

\* C5: every result findBestMatch returns has a score in [0, 1].
C5ScoreInUnitInterval ==
    pc = "done" /\ match # NoMatch =>
        /\ ScoreGE(match.score, ZeroScore)
        /\ ScoreGE(exactScore, match.score)

\* C8: for a single word w, findBestMatch on the doubled transcript "w w"
\* returns the same command, score and arguments as on "w".
C8DoubledWord ==
    pc = "done" =>
        LET words == split(input)
        IN  (Len(words) = 2 /\ words[1] = words[2] /\ words[1] # <<>>) =>
                match = findBestMatch(commands, words[1])

\* C9: an empty or whitespace-only transcript yields no match for every
\* list, a list with the universal wildcard included.
C9EmptyTranscript ==
    pc = "done" /\ trim(input) = <<>> => match = NoMatch

\* C10: for a suffix pattern * S, a transcript that does not end with S
\* but whose last word is in the phonetic class of S matches the pattern,
\* with score 0.9 + len(S)/100 and the text before the last word as
\* argument.
C10SuffixPhonetic ==
    pc = "done" =>
        \A c \in 1..Len(commands) : \A j \in 1..Len(commands[c].command) :
            LET lowerPhrase == toLowerCase(commands[c].command[j])
                suffix == trim(Tail(lowerPhrase))
                lowerTranscript == processedTranscript(input)
                words == split(lowerTranscript)
                lastWord == words[Len(words)]
                cands == matchPass(commands, input).cands
            IN  (/\ lowerPhrase # Star
                 /\ ~endsWith(lowerPhrase, Star)
                 /\ startsWith(lowerPhrase, Star)
                 /\ ~endsWith(lowerTranscript, suffix)
                 /\ lastWord # suffix
                 /\ soundsSimilar(suffix, lastWord))
                => \E k \in 1..Len(cands) :
                      /\ cands[k].branch = "suffix"
                      /\ cands[k].callback = commands[c].callback
                      /\ ScoreEQ(cands[k].score, prefixScore(Len(suffix)))
                      /\ cands[k].args =
                            <<trim(substring(input, 0,
                                  lastIndexOf(lowerTranscript, lastWord)))>>

----------------------------------------------------------------------------
(* Properties of the phonetic table, under SpecTable *)

\* C6: for every key P of the table and every T of P's class,
\* findBestMatch(T, [literal P]) resolves to the command with a score of
\* at least 0.7.
C6ClassResolves ==
    (/\ pc = "done"
     /\ \E p \in TablePairs :
           commands = literalCommand(tableKey(p)) /\ input = tableWord(p))
    => /\ match.callback = "literal"
       /\ ScoreGE(match.score, threshold)

\* C7: for every key A and every B of A's class, the literal phrase A is
\* found phonetically equivalent to transcript B and the literal phrase B
\* to transcript A: neither takes the edit-distance branch.
C7Symmetric ==
    pc = "done" =>
        \A k \in 1..Len(matchPass(commands, input).cands) :
            matchPass(commands, input).cands[k].branch # "levenshtein"

----------------------------------------------------------------------------
(* Further properties of findBestMatch, under SpecMatch *)

\* C11: for a prefix pattern P * and any transcript, a candidate is
\* produced exactly when the normalized transcript starts with P and the
\* text after P is not empty after trimming; its one argument is the
\* original-case text that follows P in the transcript, trimmed, never
\* empty, and its score is 0.9 + len(P)/100.
C11PrefixArgument ==
    pc = "done" =>
        \A c \in 1..Len(commands) : \A j \in 1..Len(commands[c].command) :
            LET lowerPhrase == toLowerCase(commands[c].command[j])
                P == trim(SubSeq(lowerPhrase, 1, Len(lowerPhrase) - 1))
                normalized == processedTranscript(input)
                following == trim(substringFrom(trim(input), Len(P)))
                cand == prefixCandidate(commands[c].callback, lowerPhrase,
                                        input, normalized)
            IN  (lowerPhrase # Star /\ endsWith(lowerPhrase, Star)) =>
                   /\ cand # NoCandidate <=>
                         /\ startsWith(normalized, P)
                         /\ trim(substringFrom(normalized, Len(P))) # <<>>
                   /\ cand # NoCandidate =>
                         /\ cand.args = <<following>>
                         /\ following # <<>>
                         /\ ScoreEQ(cand.score, prefixScore(Len(P)))

\* C12: while the list holds a universal wildcard, every non-empty
\* transcript resolves to a command: a specific one scoring at least 0.7,
\* or the wildcard with the whole transcript as its one argument.
C12WildcardCatchesAll ==
    (/\ pc = "done"
     /\ input # <<>>
     /\ \E c \in 1..Len(commands) : \E j \in 1..Len(commands[c].command) :
           toLowerCase(commands[c].command[j]) = Star)
    => /\ match # NoMatch
       /\ match.branch = "wildcard" => match.args = <<input>>
       /\ match.branch # "wildcard" => ScoreGE(match.score, threshold)

\* C14: the candidate findBestMatch returns has the maximum score of all
\* candidates computed in the pass, and of several candidates with that
\* score it is the one evaluated first.
C14FirstMaximum ==
    pc = "done" /\ match # NoMatch =>
        LET cands == matchPass(commands, input).cands
        IN  \E k \in 1..Len(cands) :
                /\ cands[k] = match
                /\ \A i \in 1..Len(cands) :
                      ScoreGE(match.score, cands[i].score)
                /\ \A i \in 1..(k - 1) :
                      ScoreGT(match.score, cands[i].score)

\* two commands hold the literal "photo"; the one listed first is returned
C14Witness ==
    /\ pc = "done"
    /\ input = <<"p","h","o","t","o">>
    /\ Len(commands) = 2
    /\ commands[1].callback = "openCamera"
    /\ commands[2].callback = "takePicture"
    /\ match.callback = "openCamera"
    /\ match.branch = "exact"

\* C16: a command whose phrase list is empty contributes no candidate and
\* does not end the pass: the result is that of the list without it.
C16EmptyPhraseList ==
    (pc = "done" /\ \E c \in 1..Len(commands) : commands[c].command = <<>>)
    => match = findBestMatch(SelectSeq(commands,
                                 LAMBDA cmd : cmd.command # <<>>), input)

\* a command without phrases listed before the command that matches
C16Witness ==
    /\ pc = "done"
    /\ input = <<"m","a","i","n"," ","s","c","r","e","e","n">>
    /\ Len(commands) = 2
    /\ commands[1].command = <<>>
    /\ match.callback = "home"
    /\ match.branch = "exact"

----------------------------------------------------------------------------
(* The edit distance, under SpecLev *)

\* the edit distance of two strings by its defining recurrence on prefixes
editDistance(a, b) ==
    LET D[i \in 0..Len(a), j \in 0..Len(b)] ==
            IF i = 0 THEN j
            ELSE IF j = 0 THEN i
            ELSE Min(D[i - 1, j - 1] + (IF a[i] = b[j] THEN 0 ELSE 1),
                     Min(D[i - 1, j] + 1, D[i, j - 1] + 1))
    IN  D[Len(a), Len(b)]

\* C13: levenshtein is the edit distance of its two arguments, an empty
\* one included, and is symmetric; a literal phrase that is neither equal
\* nor phonetically equivalent to the normalized transcript gives the
\* candidate score 1 - d / max(len(transcript), len(phrase)), d that distance.
C13EditDistanceScore ==
    pc = "done" =>
        LET phrase == commands[1].command[1]
            lowerPhrase == toLowerCase(phrase)
            lowerTranscript == processedTranscript(input)
            cand == literalCandidate("literal", lowerPhrase, lowerTranscript)
        IN  /\ levenshtein(input, phrase) = editDistance(input, phrase)
            /\ levenshtein(input, phrase) = levenshtein(phrase, input)
            /\ (lowerTranscript # lowerPhrase
                   /\ ~literalPhonetic(lowerPhrase, lowerTranscript))
               => /\ cand.branch = "levenshtein"
                  /\ cand.score =
                        levenshteinScore(
                            editDistance(lowerTranscript, lowerPhrase),
                            Max(Len(lowerTranscript), Len(lowerPhrase)))
                  /\ input # <<>> => matchPass(commands, input).cands = <<cand>>

\* "ab" against the phrase "abb": one edit in three characters, score 2/3
C13Witness ==
    /\ pc = "done"
    /\ input = <<"a","b">>
    /\ commands = literalCommand(<<"a","b","b">>)
    /\ levenshtein(input, commands[1].command[1]) = 1
    /\ matchPass(commands, input).cands[1].branch = "levenshtein"
    /\ matchPass(commands, input).cands[1].score.n = 2
    /\ matchPass(commands, input).cands[1].score.d = 3
    /\ match = NoMatch

----------------------------------------------------------------------------
(* The application's commands, under SpecApp *)

\* C17: at the LANGUAGE step of the wizard, a final transcript equal to a
\* language name of languageMap, in any letter case, sets
\* storyConfig.language to that language and advances to CONFIRM.
C17LanguageSet ==
    [][\A i \in 1..Len(languageNames) :
          \A text \in {languageNames[i], toLowerCase(languageNames[i]),
                        toUpperCase(languageNames[i])} :
              (/\ app.appState = "CONFIG_VIEW"
               /\ app.configStep = "LANGUAGE"
               /\ AppOnResult(text))
              => /\ app'.storyConfig.language = languageNames[i]
                 /\ app'.configStep = "CONFIRM"]_vars

\* C18: in STORY_VIEW with a captured image, the final transcripts "back"
\* and "reset" each resolve to a command that changes the application
\* state to CAMERA_VIEW.
C18StoryBackReset ==
    [][\A text \in {<<"b","a","c","k">>, <<"r","e","s","e","t">>} :
          (/\ app.appState = "STORY_VIEW"
           /\ app.capturedImage
           /\ AppOnResult(text))
          => /\ match' # NoMatch
             /\ app'.appState = "CAMERA_VIEW"]_vars

\* C19: in CAMERA_VIEW, "photo in N seconds" and "photo N seconds", N from
\* 1 to 10 as digits or as a number word, call startCountdown(N); and no
\* transcript makes a callback call startCountdown with a value outside
\* 1..10.
C19Countdown ==
    [][/\ \A n \in 1..Len(numberWords) :
             \A text \in countdownTexts(NumberDigits[n])
                           \cup countdownTexts(numberWords[n]) :
                 (app.appState = "CAMERA_VIEW" /\ AppOnResult(text))
                 => app'.countdown = n
       /\ (AppNext /\ app'.countdown # app.countdown)
          => /\ app.appState = "CAMERA_VIEW"
             /\ app'.countdown \in 1..10]_vars

\* "photo in five seconds" has started a countdown of 5
C19Witness ==
    /\ pc = "done"
    /\ input = <<"p","h","o","t","o"," ","i","n"," ","f","i","v","e"," ","s","e","c","o","n","d","s">>
    /\ match.callback = "countdown"
    /\ match.args = <<<<"i","n"," ","f","i","v","e"," ","s","e","c","o","n","d","s">>>>
    /\ app.appState = "CAMERA_VIEW"
    /\ app.countdown = 5

\* C20: in every state of the application and at every step of the wizard,
\* the final transcripts "home", "start over" and "main screen" resolve to
\* the home command, and afterwards appState is HOME, capturedImage is null
\* and storyParts is empty.
C20HomeEverywhere ==
    [][\A text \in {<<"h","o","m","e">>, <<"s","t","a","r","t"," ","o","v","e","r">>, <<"m","a","i","n"," ","s","c","r","e","e","n">>} :
          AppOnResult(text)
          => /\ match'.callback = "home"
             /\ app'.appState = "HOME"
             /\ ~app'.capturedImage
             /\ app'.storyParts = <<>>]_vars

\* "start over" said at the SUBJECT step, where the wildcard is active,
\* with a configuration that only the wizard holds
C20Witness ==
    /\ pc = "done"
    /\ input = <<"s","t","a","r","t"," ","o","v","e","r">>
    /\ match.callback = "home"
    /\ app.configStep = "SUBJECT"
    /\ app.storyConfig = modifiedStoryConfig
    /\ app.appState = "HOME"
    /\ ~app.capturedImage
    /\ app.storyParts = <<>>

\* a story generation has started: the story view is shown, loading
generationStarted ==
    /\ app'.appState = "STORY_VIEW"
    /\ app'.isLoading
    /\ app'.storyParts = <<>>
    /\ (app.appState # "STORY_VIEW" \/ ~app.isLoading)

\* C21: the final transcripts "generate" and "confirm" start a story
\* generation only when the wizard is at the CONFIRM step and an image is
\* captured; at every other step they leave appState, configStep,
\* storyConfig and storyParts unchanged.
C21GenerateOnlyAtConfirm ==
    [][\A text \in {<<"g","e","n","e","r","a","t","e">>, <<"c","o","n","f","i","r","m">>} :
          AppOnResult(text)
          => /\ generationStarted
                => (app.configStep = "CONFIRM" /\ app.capturedImage)
             /\ app.configStep # "CONFIRM"
                => /\ app'.appState = app.appState
                   /\ app'.configStep = app.configStep
                   /\ app'.storyConfig = app.storyConfig
                   /\ app'.storyParts = app.storyParts]_vars

\* "confirm" said at the CONFIRM step has started a generation
C21Witness ==
    /\ pc = "done"
    /\ input = <<"c","o","n","f","i","r","m">>
    /\ match.callback = "generate"
    /\ app.appState = "STORY_VIEW"
    /\ app.configStep = "CONFIRM"
    /\ app.isLoading
    /\ app.capturedImage

\* "generate" said at the TYPE step was matched and changed nothing
C21WitnessEarly ==
    /\ pc = "done"
    /\ input = <<"g","e","n","e","r","a","t","e">>
    /\ match.callback = "generate"
    /\ app.appState = "CONFIG_VIEW"
    /\ app.configStep = "TYPE"

\* C22: when the callback of a matched command throws, for example for an
\* unsupported language spoken at the LANGUAGE step, commandStatus becomes
\* 'error', the status shown for an unrecognized command.
C22ThrowShowsError ==
    [][\A text \in AppTexts(app) :
          (/\ AppOnResult(text)
           /\ match' # NoMatch
           /\ callbackThrows(match'.callback, match'.args))
          => commandStatus' = "error"]_vars

\* an unrecognized command does show the error status
C22UnrecognizedShowsError ==
    /\ pc = "done"
    /\ match = NoMatch
    /\ commandStatus = "error"

\* a thrown callback is shown with the idle status
C22ThrowShowsIdle ==
    /\ pc = "done"
    /\ match # NoMatch
    /\ match.callback = "language"
    /\ callbackThrows(match.callback, match.args)
    /\ startsWith(transcript, <<CrossMark>>)
    /\ commandStatus = "idle"

\* C23: once stopListening has taken effect (the listening flag and the
\* pending timers are cleared), no step starts the recognizer again until
\* startListening is called, whatever timer was pending and whatever end
\* and error events arrive; and while listening stays true, every end of a
\* session is eventually followed by a restart.
C23StopHoldsRestartLoops ==
    /\ [][/\ StopListening => (~listening' /\ restartTimer' = NoTimer)
          /\ (~listening /\ ~listening')
             => /\ ~(session = "idle" /\ session' = "active")
                /\ restartTimer' = NoTimer
                /\ (transcript' = RestartFailedText
                    => transcript = RestartFailedText)]_vars
    /\ [](session = "idle" /\ listening
          => <>(session = "active" \/ ~listening))

\* a session has ended after stopListening; nothing is pending
C23Witness ==
    /\ ~listening
    /\ session = "idle"
    /\ transcript = MicOffText
    /\ restartTimer = NoTimer

\* a session has ended while listening and the restart is pending
C23WitnessRestart ==
    /\ listening
    /\ session = "idle"
    /\ restartTimer = 250

\* C24: every call of onProcessingStart is eventually followed by a call of
\* onProcessingEnd, for every interleaving of later interim and final
\* results, stopListening and startListening: isProcessing never stays
\* true for ever.
C24ProcessingEnds == [](isProcessing => <>(~isProcessing))

\* the feedback timer was cleared while the App still shows processing
C24ProcessingStuck ==
    /\ isProcessing
    /\ ~feedbackTimer
    /\ ~listening
    /\ session = "idle"
    /\ restartTimer = NoTimer

\* C28: the restart delay chosen at the end of a session is 2500 ms only if
\* that same session reported a network error, 500 ms only if that session
\* reported aborted, and 250 ms otherwise; both flags are clear once the
\* end of the session has been handled, so that a flag set in one session
\* never affects the delay of a later one.
C28DelayFromOwnSession ==
    [][OnEnd
       => /\ ~isNetworkError'
          /\ ~isAbortedError'
          /\ listening
             => /\ restartTimer' = 2500 => "network" \in sessionErrors
                /\ restartTimer' = 500 => "aborted" \in sessionErrors
                /\ sessionErrors = {} => restartTimer' = 250]_vars

\* a session that reported no error has ended with the delay of a network
\* error
C28StaleDelay ==
    /\ session = "idle"
    /\ listening
    /\ restartTimer = 2500
    /\ isFinal = FALSE /\ input = <<>>
    /\ transcript = ListeningText

\* the generations that are in flight
running(gens) == {k \in 1..Len(gens) : gens[k] = "running"}

\* C25: when story generations overlap, isLoading is true as long as the
\* most recently started one is in flight; the completion of an older
\* generation neither overwrites storyParts nor clears the loading state
\* of a newer one; and the story shown in the end is that of the most
\* recently started generation.
C25LatestGenerationWins ==
    [][/\ Len(generations') \in running(generations') => app'.isLoading
       /\ \A k \in running(generations) \ running(generations') :
             k < Len(generations)
             => /\ app'.storyParts = app.storyParts
                /\ app'.isLoading = app.isLoading
       /\ (/\ generations' # <<>>
           /\ running(generations') = {}
           /\ app'.appState = "STORY_VIEW")
          => app'.storyParts \in {<<storyOfGeneration[Len(generations')]>>,
                                  <<ApologyPart>>}]_vars

\* the second generation has resolved, then the first: the story view
\* shows the story of the first
C25OlderStoryShown ==
    /\ generations = <<"resolved", "resolved">>
    /\ app.appState = "STORY_VIEW"
    /\ ~app.isLoading
    /\ app.storyParts = <<storyOfGeneration[1]>>

\* the first generation has resolved while the second is in flight: the
\* story view shows the first story and no loading state
C25LoadingCleared ==
    /\ generations = <<"resolved", "running">>
    /\ app.appState = "STORY_VIEW"
    /\ ~app.isLoading
    /\ app.storyParts = <<storyOfGeneration[1]>>

\* C26: in analyzeImageStyle and generateImageForSegment a request failure
\* that is not a 503 error ends the call at once with the fallback value,
\* without another request; only 503 failures are retried, and a call
\* issues at most 4 requests.
C26OnlyRetry503 ==
    [][/\ \A outcome \in {"503", "error"} :
             (/\ RequestEnds(outcome)
              /\ call.fn \in {"analyzeImageStyle", "generateImageForSegment"})
             => /\ outcome = "error"
                   => /\ call'.phase = "returned"
                      /\ call'.result = fallback(call.fn)
                      /\ call'.requests = call.requests
                /\ call'.phase \in {"backoff", "request"} => outcome = "503"
       /\ call'.requests <= MAX_RETRIES + 1]_vars

\* analyzeImageStyle has issued a second request right after an error that
\* was not a 503
C26RetriedAfterError ==
    /\ call.fn = "analyzeImageStyle"
    /\ call.outcomes = <<"error">>
    /\ call.phase = "request"
    /\ call.requests = 2
    /\ call.delay = 0

\* generateImageForSegment has issued four requests, each failed with an
\* error that was not a 503, before it returned null
C26FourRequests ==
    /\ call.fn = "generateImageForSegment"
    /\ call.outcomes = <<"error", "error", "error", "error">>
    /\ call.phase = "returned"
    /\ call.result = "null"
    /\ call.requests = 4

\* C27: after speakStory is called, with any number of parts and without a
\* cancel, the parts are handed to the synthesizer one at a time in index
\* order, and onFinish is eventually called, exactly once, whether the
\* utterances end normally or with an error event.
C27NarrationFinishes ==
    /\ [](\A i \in 1..Len(speech.spoken) : speech.spoken[i] = i - 1)
    /\ [](speech.finishes <= 1)
    /\ [](speech.phase = "called" => <>(speech.finishes = 1))

\* the second of three parts failed: the third is never spoken, onFinish
\* was not called and StoryView still shows the narration as running
C27StalledAfterError ==
    /\ speech.parts = 3
    /\ speech.spoken = <<0, 1>>
    /\ speech.partEnds = <<0, 1>>
    /\ speech.utterance = NoUtterance
    /\ speech.finishes = 0
    /\ speech.isSpeaking

\* all parts ended normally: onFinish was called once
C27AllEnded ==
    /\ speech.parts = 3
    /\ speech.partEnds = <<0, 1, 2>>
    /\ speech.finishes = 1
    /\ ~speech.isSpeaking

====
